---- MODULE Spec2Model ----
(***************************************************************************)
(* The candidate backing subsystem (node/core/backing/src/lib.rs) as a     *)
(* state machine: the State struct, the per-relay-parent statement tables  *)
(* and the background validation tasks.                                    *)
(*                                                                         *)
(* Hashes are small naturals.  A candidate is identified with its hash;    *)
(* its descriptor's para id is ParaOf(hash).  An Option<T> is the empty    *)
(* set (None) or a singleton (Some).                                       *)
(*                                                                         *)
(* The actions are the handlers of the file working on State:              *)
(* handle_active_leaves_update, handle_statement_message,                  *)
(* handle_second_msg, handle_validated_candidate_command, and the          *)
(* background task validate_and_make_available.                            *)
(***************************************************************************)
EXTENDS Naturals, Integers, Sequences, FiniteSets, Bags, TLC

\* ------------------------------------------------------------------ bounds
NLeaves == 2        \* relay-chain block hashes 1..NLeaves
NCand == 3          \* candidate hashes 1..NCand
MaxUpdates == 2     \* active-leaves signals handled
MaxMsgs == 3        \* overseer messages (Second / Statement) handled

\* mpsc::channel(16) of background results
ChannelCapacity == 16

Hashes == 1..NLeaves
Candidates == 1..NCand
\* candidates 1 and 2 belong to para 1, candidate c > 2 to para c - 1
ParaOf(c) == IF c <= 2 THEN 1 ELSE c - 1

\* ----------------------------------------------------------------- helpers
Put(f, k, v) == [x \in DOMAIN f \cup {k} |-> IF x = k THEN v ELSE f[x]]
Del(f, k) == [x \in DOMAIN f \ {k} |-> f[x]]
Restrict(f, S) == [x \in DOMAIN f \cap S |-> f[x]]
EmptyMap == [x \in {} |-> 0]
Range(s) == {s[i] : i \in DOMAIN s}
Min(a, b) == IF a < b THEN a ELSE b
\* position (0-based) of x in sequence s, as an Option
Position(s, x) == IF \E i \in DOMAIN s : s[i] = x
                  THEN {(CHOOSE i \in DOMAIN s : s[i] = x /\ \A j \in 1..(i - 1) : s[j] # x) - 1}
                  ELSE {}
The(S) == CHOOSE x \in S : TRUE

\* ------------------------------------------------------- runtime API data
\* What the relay-chain runtime answers at each relay parent: the validator
\* keys (index-aligned), the validator groups, the number of group rotations
\* and the availability cores.  OurKey is the key the keystore holds.
OurKey == "ours"
Scheduled(p) == [kind |-> "Scheduled", para_id |-> p]
Occupied == [kind |-> "Occupied", para_id |-> 0]
Runtime(rp) ==
    CASE rp = 1 -> [validators |-> <<"ours", "k1", "k2">>,
                    groups |-> << <<0>>, <<2, 0, 1>> >>,
                    rotations |-> 0,
                    session_index |-> 1,
                    cores |-> <<Scheduled(2), Scheduled(1)>>]
      [] rp = 2 -> [validators |-> <<"k1", "k2">>,
                    groups |-> << <<0, 1>> >>,
                    rotations |-> 1,
                    session_index |-> 1,
                    cores |-> <<Occupied, Scheduled(2)>>]
      [] OTHER  -> [validators |-> <<"k1", "ours", "k2">>,
                    groups |-> << <<1, 0>>, <<2, 1>> >>,
                    rotations |-> 0,
                    session_index |-> 2,
                    cores |-> <<Scheduled(2), Scheduled(3)>>]

\* validator indices a statement may carry: every index of the largest
\* validator set and one index beyond it
ValidatorIndices == 0..3

\* ----------------------------------------------------------- TableContext
\* How many votes we need to consider a candidate backed.
minimum_votes_skewed(n_validators) == Min(1, n_validators)
minimum_votes(n_validators) == Min(2, n_validators)

\* usize::MAX, the requisite votes of a para without a group: the largest
\* count there is (here the largest integer of the checker), which no number
\* of votes reaches
UsizeMax == 2^31 - 1

is_member_of(ctx, authority, group) ==
    group \in DOMAIN ctx.groups /\ Position(ctx.groups[group], authority) # {}

requisite_votes(ctx, group) ==
    IF group \in DOMAIN ctx.groups THEN minimum_votes(Len(ctx.groups[group])) ELSE UsizeMax

\* ------------------------------------------------------- statement table
\* statement_table::Table: per candidate the validity votes by validator
\* ("Seconded" is the vote issued with the candidate, "Valid" the explicit
\* one), per validator the candidate it proposed, and the misbehaviors
\* detected since the last drain.
EmptyTable == [candidate_votes |-> EmptyMap, authority_data |-> EmptyMap,
               detected_misbehavior |-> {}]

Summary(table, c) ==
    [candidate |-> c, group_id |-> ParaOf(c),
     validity_votes |-> Cardinality(DOMAIN table.candidate_votes[c])]

NoteMisbehavior(table, v, report) ==
    [table EXCEPT !.detected_misbehavior = @ \cup {[validator |-> v, report |-> report]}]

\* a validator that voted on c votes differently: the vote is refused and a
\* double vote is noted
DoubleVoteAccepted(table, from, c, kind) ==
    LET t == [table EXCEPT !.candidate_votes[c] = Put(@, from, kind)]
    IN  [table |-> t, summary |-> {Summary(t, c)}]
DoubleVote(table, from, c, kind) ==
    [table |-> NoteMisbehavior(table, from, [kind |-> "ValidityDoubleVote", a |-> c, b |-> c]),
     summary |-> {}]

\* record a validity vote; the result is [table, summary : Option<Summary>]
validity_vote(ctx, table, from, c, kind) ==
    IF c \notin DOMAIN table.candidate_votes
    THEN [table |-> table, summary |-> {}]
    ELSE IF ~is_member_of(ctx, from, ParaOf(c))
    THEN [table |-> NoteMisbehavior(table, from, [kind |-> "UnauthorizedStatement", a |-> c, b |-> c]),
          summary |-> {}]
    ELSE IF from \in DOMAIN table.candidate_votes[c]
    THEN IF table.candidate_votes[c][from] # kind
         THEN DoubleVote(table, from, c, kind)
         ELSE [table |-> table, summary |-> {}]
    ELSE LET t == [table EXCEPT !.candidate_votes[c] = Put(@, from, kind)]
         IN  [table |-> t, summary |-> {Summary(t, c)}]

\* the votes entry of a proposed candidate: created when the candidate is new
CandidateEntryReset(candidate_votes, c) == Put(candidate_votes, c, EmptyMap)
CandidateEntry(candidate_votes, c) ==
    IF c \in DOMAIN candidate_votes THEN candidate_votes ELSE Put(candidate_votes, c, EmptyMap)

import_candidate(ctx, table, from, c) ==
    IF ~is_member_of(ctx, from, ParaOf(c))
    THEN [table |-> NoteMisbehavior(table, from, [kind |-> "UnauthorizedStatement", a |-> c, b |-> c]),
          summary |-> {}]
    ELSE IF from \in DOMAIN table.authority_data /\ table.authority_data[from] # c
    THEN [table |-> NoteMisbehavior(table, from,
                        [kind |-> "MultipleCandidates", a |-> table.authority_data[from], b |-> c]),
          summary |-> {}]
    ELSE LET t == [table EXCEPT
                     !.authority_data = Put(@, from, c),
                     !.candidate_votes = CandidateEntry(@, c)]
         IN  validity_vote(ctx, t, from, c, "Seconded")

\* Table::import_statement
table_import_statement(ctx, table, stmt) ==
    IF stmt.kind = "Seconded"
    THEN import_candidate(ctx, table, stmt.sender, stmt.candidate)
    ELSE validity_vote(ctx, table, stmt.sender, stmt.candidate, "Valid")

\* Table::get_candidate
get_candidate(table, c) == IF c \in DOMAIN table.candidate_votes THEN {c} ELSE {}

\* the votes of candidate c in the order `ord` lists the validators (the
\* table keeps them in a hash map, whose iteration order is arbitrary)
RECURSIVE VotesInOrder(_, _)
VotesInOrder(votes, ord) ==
    IF ord = <<>> THEN <<>>
    ELSE (IF Head(ord) \in DOMAIN votes
          THEN << [id |-> Head(ord), vote |-> votes[Head(ord)]] >>
          ELSE <<>>) \o VotesInOrder(votes, Tail(ord))

\* Table::attested_candidate: Option<AttestedCandidate>
attested_candidate(table, ctx, c, ord) ==
    IF c \in DOMAIN table.candidate_votes
       /\ Cardinality(DOMAIN table.candidate_votes[c]) >= requisite_votes(ctx, ParaOf(c))
    THEN {[candidate |-> c, group_id |-> ParaOf(c),
           validity_votes |-> VotesInOrder(table.candidate_votes[c], ord)]}
    ELSE {}

\* Table::drain_misbehaviors
drain_misbehaviors(table) == [table EXCEPT !.detected_misbehavior = {}]

\* ------------------------------------------------ table_attested_to_backed
\* ValidityVote -> ValidityAttestation (Issued -> Implicit, Valid -> Explicit);
\* `by` stands for the signature, which names the signer
ToAttestation(v) ==
    [kind |-> IF v.vote = "Seconded" THEN "Implicit" ELSE "Explicit", by |-> v.id]

\* stable insertion of a (orig_idx, position) pair by position
RECURSIVE InsertByPos(_, _)
InsertByPos(sorted, e) ==
    IF sorted = <<>> THEN <<e>>
    ELSE IF Head(sorted).pos <= e.pos
         THEN <<Head(sorted)>> \o InsertByPos(Tail(sorted), e)
         ELSE <<e>> \o sorted
RECURSIVE SortByPos(_)
SortByPos(s) ==
    IF s = <<>> THEN <<>>
    ELSE InsertByPos(SortByPos(SubSeq(s, 1, Len(s) - 1)), s[Len(s)])

UnsortedPositions(s) == s

SortedVotePositions(s) == SortByPos(s)

table_attested_to_backed(attested, ctx) ==
    IF attested.group_id \notin DOMAIN ctx.groups THEN {}
    ELSE
    LET group == ctx.groups[attested.group_id]
        ids == [i \in DOMAIN attested.validity_votes |-> attested.validity_votes[i].id]
        validity_votes == [i \in DOMAIN attested.validity_votes |->
                              ToAttestation(attested.validity_votes[i])]
        vote_positions == [i \in DOMAIN ids |->
                              [orig |-> i,
                               pos |-> IF Position(group, ids[i]) = {} THEN 0
                                       ELSE The(Position(group, ids[i]))]]
        sorted == SortedVotePositions(vote_positions)
    IN
    IF \E i \in DOMAIN ids : Position(group, ids[i]) = {} THEN {}
    ELSE {[candidate |-> attested.candidate,
           validity_votes |-> [k \in DOMAIN sorted |-> validity_votes[sorted[k].orig]],
           validator_indices |-> [p \in 1..Len(group) |->
                                     \E i \in DOMAIN ids : Position(group, ids[i]) = {p - 1}]]}

\* ------------------------------------------------------------------ state
VARIABLES
    implicit_view,      \* State.implicit_view: leaf -> allowed relay parents
    per_leaf,           \* State.per_leaf: leaf -> ActiveLeafState
    per_relay_parent,   \* State.per_relay_parent: hash -> PerRelayParentState
    per_candidate,      \* State.per_candidate: candidate -> PerCandidateState
    tasks,              \* spawned background validation tasks still running (a bag)
    channel,            \* background_validation_tx/rx: the results sent and not yet received
    active,             \* the leaves the overseer has activated and not deactivated
    last,               \* the event handled last
    out,                \* the messages sent while handling the last event, in order
    nSigned,            \* statements signed and shared so far, per (relay parent, candidate, role)
    nBacked,            \* BackedCandidate messages sent so far, per (relay parent, candidate)
    nUpdates,           \* active-leaves signals handled so far
    nMsgs               \* overseer messages handled so far

vars == <<implicit_view, per_leaf, per_relay_parent, per_candidate, tasks, channel,
          active, last, out, nSigned, nBacked, nUpdates, nMsgs>>

Roles == {"Seconded", "Valid"}

\* an event: what was handled (Leaves, Statement, Second, Task, Command) and
\* its input; the fields an event does not have are 0, "", FALSE or {}.  For
\* an active-leaves update, failing are the relay parents whose runtime
\* queries failed and before the keys of per_relay_parent before the update.
\* For a statement, repeated says that the table already held this very vote;
\* for a command, no_key says that a statement was to be signed and the node
\* had no key to sign it with; for GetBackedCandidates, requested are the
\* hashes asked for
Event(event, relay_parent, candidate, kind, ok, sender) ==
    [event |-> event, relay_parent |-> relay_parent, candidate |-> candidate,
     kind |-> kind, ok |-> ok, sender |-> sender,
     activated |-> {}, deactivated |-> {}, failing |-> {}, before |-> {},
     repeated |-> FALSE, no_key |-> FALSE, requested |-> <<>>]

Init ==
    /\ implicit_view = EmptyMap
    /\ per_leaf = EmptyMap
    /\ per_relay_parent = EmptyMap
    /\ per_candidate = EmptyMap
    /\ tasks = EmptyBag
    /\ channel = <<>>
    /\ active = {}
    /\ last = Event("Init", 0, 0, "", FALSE, 0)
    /\ out = <<>>
    /\ nSigned = [k \in Hashes \X Candidates \X Roles |-> 0]
    /\ nBacked = [k \in Hashes \X Candidates |-> 0]
    /\ nUpdates = 0
    /\ nMsgs = 0

\* ----------------------------------------- construct_per_relay_parent_state
\* GroupRotationInfo::group_for_core
group_for_core(rt, core_index, n_cores) == (core_index + rt.rotations) % n_cores

\* Validator::construct: our index in the validator set, if our key is in it
OurValidator(rt) == Position(rt.validators, OurKey)

\* the loop over the availability cores, from core `idx` (0-based) on, with
\* the accumulator acc = [groups, assignment]
RECURSIVE CoresLoop(_, _, _, _)
CoresLoop(rt, validator, idx, acc) ==
    IF idx >= Len(rt.cores) THEN acc
    ELSE
    LET core == rt.cores[idx + 1]
        group_index == group_for_core(rt, idx, Len(rt.cores))
    IN  IF core.kind = "Scheduled" /\ group_index < Len(rt.groups)
        THEN LET g == rt.groups[group_index + 1]
             IN  CoresLoop(rt, validator, idx + 1,
                    [groups |-> Put(acc.groups, core.para_id, g),
                     assignment |-> IF validator # {} /\ Position(g, The(validator)) # {}
                                    THEN {core.para_id} ELSE acc.assignment])
        ELSE CoresLoop(rt, validator, idx + 1, acc)

construct_per_relay_parent_state(relay_parent) ==
    LET rt == Runtime(relay_parent)
        validator == OurValidator(rt)
        looped == CoresLoop(rt, validator, 0, [groups |-> EmptyMap, assignment |-> {}])
    IN  [parent |-> relay_parent,
         session_index |-> rt.session_index,
         assignment |-> looped.assignment,
         backed |-> {},
         table |-> EmptyTable,
         table_context |-> [groups |-> looped.groups, validators |-> rt.validators,
                            validator |-> validator],
         issued_statements |-> {},
         awaiting_validation |-> {},
         fallbacks |-> EmptyMap]

\* --------------------------------------------------------- the implicit view
\* ImplicitView::all_allowed_relay_parents
all_allowed_relay_parents(view) == UNION {view[l] : l \in DOMAIN view}
\* ImplicitView::deactivate_leaf, for each hash of a list
deactivate_leaves(view, deactivated) == Restrict(view, DOMAIN view \ deactivated)

\* --------------------------------------------------------------- the modes
\* prospective_parachains_mode
prospective_parachains_mode(leaf_hash) == "Disabled"

\* the results ImplicitView::activate_leaf can have for a leaf: an error, or
\* the leaf with some of the other blocks as its allowed ancestors
ActivateLeafResults(leaf_hash) ==
    {[ok |-> FALSE, allowed |-> {}]}
    \cup {[ok |-> TRUE, allowed |-> {leaf_hash} \cup anc] : anc \in SUBSET (Hashes \ {leaf_hash})}

\* what the activation step (lines 425-442) can yield: None, Disabled, or
\* Enabled with the result of activating the leaf in the implicit view
ActivationResults(activated) ==
    IF activated = {} THEN {[mode |-> "None"]}
    ELSE IF prospective_parachains_mode(The(activated)) = "Disabled"
         THEN {[mode |-> "Disabled"]}
         ELSE {[mode |-> "Enabled", view |-> r] : r \in ActivateLeafResults(The(activated))}

\* the relay parents the clean-up loop (lines 455-457) takes out of per_relay_parent
CleanedRelayParents(view, leaves) == all_allowed_relay_parents(view)

\* per_candidate.retain (lines 464-466)
RetainCandidates(candidates, relay_parents) ==
    Restrict(candidates, {c \in DOMAIN candidates : candidates[c].relay_parent \in relay_parents})

\* seconded_at_depth of a newly activated leaf (lines 501-546): the answer for
\* the first locally seconded candidate, membership being the depths the
\* Prospective Parachains subsystem reports for each candidate under the leaf
SecondedAtDepth(candidates, membership) ==
    LET remaining_seconded == {c \in DOMAIN candidates : candidates[c].seconded_locally}
    IN  IF remaining_seconded = {} THEN EmptyMap
        ELSE LET first == CHOOSE c \in remaining_seconded : \A d \in remaining_seconded : c <= d
             IN  [depth \in membership[first] |-> first]

\* the entries added for the fresh relay parents (lines 582-594); `failing`
\* are the relay parents whose runtime queries fail
AddFreshIgnoringFailure(relay_parents, fresh, failing) ==
    [rp \in DOMAIN relay_parents \cup fresh |->
        IF rp \in DOMAIN relay_parents THEN relay_parents[rp]
        ELSE construct_per_relay_parent_state(rp)]
AddFresh(relay_parents, fresh, failing) ==
    [rp \in DOMAIN relay_parents \cup (fresh \ failing) |->
        IF rp \in DOMAIN relay_parents THEN relay_parents[rp]
        ELSE construct_per_relay_parent_state(rp)]

\* the loop `state.per_leaf.remove(&deactivated)` (lines 444-447)
RemoveDeactivatedNothing(leaves, deactivated) == leaves
RemoveDeactivated(leaves, deactivated) == Restrict(leaves, DOMAIN leaves \ deactivated)

\* does the arm of the match insert the leaf into per_leaf (a Disabled leaf
\* already known returns early, lines 474-476)
InsertsLeaf(res, leaves) ==
    \/ res.mode = "Disabled" /\ The(leaves.activated) \notin DOMAIN leaves.per_leaf
    \/ res.mode = "Enabled" /\ res.view.ok

handle_active_leaves_update(activated, deactivated, res, membership, failing) ==
    LET view1 == IF res.mode = "Enabled" /\ res.view.ok
                 THEN Put(implicit_view, The(activated), res.view.allowed)
                 ELSE implicit_view
        leaves1 == RemoveDeactivated(per_leaf, deactivated)
        view2 == deactivate_leaves(view1, deactivated)
        rps1 == Restrict(per_relay_parent,
                         DOMAIN per_relay_parent \ CleanedRelayParents(view2, DOMAIN leaves1))
        cands1 == RetainCandidates(per_candidate, DOMAIN rps1)
        inserts == InsertsLeaf(res, [activated |-> activated, per_leaf |-> leaves1])
        fresh == IF ~inserts THEN {}
                 ELSE IF res.mode = "Disabled" THEN activated
                 ELSE view2[The(activated)]
    IN  /\ implicit_view' = view2
        /\ per_candidate' = cands1
        /\ per_leaf' = IF inserts
                       THEN Put(leaves1, The(activated),
                                [prospective_parachains_mode |-> res.mode,
                                 seconded_at_depth |->
                                    IF res.mode = "Disabled" THEN EmptyMap
                                    ELSE SecondedAtDepth(cands1, membership)])
                       ELSE leaves1
        /\ per_relay_parent' = AddFresh(rps1, fresh, failing)

\* OverseerSignal::ActiveLeaves(update): the overseer activates at most one
\* leaf, one that is not active, and deactivates active leaves
ActiveLeavesUpdate ==
    /\ nUpdates < MaxUpdates
    /\ \E activated \in {{}} \cup {{h} : h \in Hashes \ active},
          deactivated \in SUBSET active :
        /\ activated \cup deactivated # {}
        /\ \E res \in ActivationResults(activated) :
           \E failing \in SUBSET (IF res.mode = "Enabled" THEN Hashes ELSE activated),
              membership \in [Candidates -> IF res.mode = "Enabled" THEN SUBSET {0, 1} ELSE {{}}] :
                /\ handle_active_leaves_update(activated, deactivated, res, membership, failing)
                /\ last' = [Event("Leaves", 0, 0, "", FALSE, 0) EXCEPT
                                !.activated = activated, !.deactivated = deactivated,
                                !.failing = failing, !.before = DOMAIN per_relay_parent]
        /\ active' = (active \ deactivated) \cup activated
    /\ nUpdates' = nUpdates + 1
    /\ out' = <<>>
    /\ UNCHANGED <<tasks, channel, nSigned, nBacked, nMsgs>>

\* ------------------------------------------------------------- statements
\* a signed statement: [kind (Seconded / Valid), candidate, sender]
Statements == [kind : Roles, candidate : Candidates, sender : ValidatorIndices]

\* all orders in which a hash map may list the keys S
Perms(S) == {p \in [1..Cardinality(S) -> S] : \A i, j \in DOMAIN p : p[i] = p[j] => i = j}

\* a set as a sequence (the order in which a drained hash map yields it)
RECURSIVE SetToSeq(_)
SetToSeq(S) == IF S = {} THEN <<>>
               ELSE LET x == CHOOSE y \in S : TRUE IN <<x>> \o SetToSeq(S \ {x})

\* dispatch_new_statement_to_dispute_coordinator: Err(ValidatorIndexOutOfBounds)
ValidatorIndexOutOfBounds(rp_state, statement) ==
    statement.sender >= Len(rp_state.table_context.validators)

\* the receipt of the statement's candidate (lines 865-872): taken from the
\* payload of a Seconded statement, looked up in the table for a Valid one
candidate_receipt_from_hash(rp_state, statement) == {statement.candidate}
maybe_candidate_receipt(rp_state, statement) ==
    IF statement.kind = "Seconded" THEN {statement.candidate}
    ELSE get_candidate(rp_state.table, statement.candidate)

\* dispatch_new_statement_to_dispute_coordinator: the messages it sends
dispatch_new_statement_to_dispute_coordinator(rp_state, statement) ==
    IF maybe_candidate_receipt(rp_state, statement) # {}
    THEN << [to |-> "DisputeCoordinator", kind |-> "ImportStatements",
             candidate_hash |-> statement.candidate,
             session |-> rp_state.session_index,
             validator_index |-> statement.sender] >>
    ELSE <<>>

\* `HashSet::insert` returns true if the thing wasn't in there already (line 953)
BackedInsertAlways(rp_state, candidate_hash) == TRUE
BackedInsert(rp_state, candidate_hash) == candidate_hash \notin rp_state.backed

\* table.drain_misbehaviors() in issue_new_misbehaviors (line 993): the table
\* it leaves
UndrainedTable(table) == table
DrainedTable(table) == drain_misbehaviors(table)

\* issue_new_misbehaviors: the messages for the drained misbehaviors
issue_new_misbehaviors(relay_parent, table) ==
    LET misbehaviors == SetToSeq(table.detected_misbehavior)
    IN  [i \in DOMAIN misbehaviors |->
            [to |-> "Provisioner", kind |-> "MisbehaviorReport",
             relay_parent |-> relay_parent,
             validator |-> misbehaviors[i].validator,
             report |-> misbehaviors[i].report]]

\* import_statement: [rp_state, summary : Option<Summary>, out : messages sent];
\* ord is the order in which the table lists the votes of an attested candidate
import_statement(rp_state, statement, ord) ==
    IF ValidatorIndexOutOfBounds(rp_state, statement)
    THEN [rp_state |-> rp_state, summary |-> {}, out |-> <<>>]
    ELSE
    LET dispute == dispatch_new_statement_to_dispute_coordinator(rp_state, statement)
        imp == table_import_statement(rp_state.table_context, rp_state.table, statement)
        attested == IF imp.summary = {} THEN {}
                    ELSE attested_candidate(imp.table, rp_state.table_context,
                                            The(imp.summary).candidate, ord)
        inserted == attested # {} /\ BackedInsert(rp_state, The(attested).candidate)
        backed == IF inserted
                  THEN table_attested_to_backed(The(attested), rp_state.table_context)
                  ELSE {}
        provision == IF backed # {}
                     THEN << [to |-> "Provisioner", kind |-> "BackedCandidate",
                              relay_parent |-> rp_state.parent,
                              backed |-> The(backed)] >>
                     ELSE <<>>
    IN  [rp_state |-> [rp_state EXCEPT
                          !.table = DrainedTable(imp.table),
                          !.backed = IF attested # {} THEN @ \cup {The(attested).candidate} ELSE @],
         summary |-> imp.summary,
         out |-> dispute \o provision \o issue_new_misbehaviors(rp_state.parent, imp.table)]

\* the orders the table may list the votes in when import_statement asks for
\* the attested candidate (one order when that list is not used)
TableOrders(rp_state, statement) ==
    LET imp == table_import_statement(rp_state.table_context, rp_state.table, statement)
        c == statement.candidate
    IN  IF /\ ~ValidatorIndexOutOfBounds(rp_state, statement)
           /\ imp.summary # {}
           /\ attested_candidate(imp.table, rp_state.table_context, c, <<>>) # {}
        THEN Perms(DOMAIN imp.table.candidate_votes[c])
        ELSE {<<>>}

\* ------------------------------------------------- spawning validation work
\* a background task: BackgroundValidationParams, with pov = {} for
\* PoVData::Ready and {from_validator} for PoVData::FetchFromValidator
Task(rp_state, c, make_command, pov) ==
    [relay_parent |-> rp_state.parent, candidate |-> c, make_command |-> make_command,
     pov |-> pov, n_validators |-> Len(rp_state.table_context.validators)]

\* awaiting_validation.insert(candidate_hash) returned true (line 1040)
AwaitingInsertAlways(rp_state, candidate_hash) == TRUE
AwaitingInsert(rp_state, candidate_hash) == candidate_hash \notin rp_state.awaiting_validation

\* background_validate_and_make_available: [rp_state, spawned : set of tasks]
background_validate_and_make_available(rp_state, params) ==
    [rp_state |-> [rp_state EXCEPT !.awaiting_validation = @ \cup {params.candidate}],
     spawned |-> IF AwaitingInsert(rp_state, params.candidate) THEN {params} ELSE {}]

\* the early return of kick_off_validation_work (lines 1076-1078)
AlreadyIssuedNever(rp_state, candidate_hash) == FALSE
AlreadyIssued(rp_state, candidate_hash) == candidate_hash \in rp_state.issued_statements

\* kick_off_validation_work
kick_off_validation_work(rp_state, attesting) ==
    IF AlreadyIssued(rp_state, attesting.candidate)
    THEN [rp_state |-> rp_state, spawned |-> {}]
    ELSE background_validate_and_make_available(rp_state,
            Task(rp_state, attesting.candidate, "Attest", {attesting.from_validator}))

\* validate_and_second
validate_and_second(rp_state, candidate) ==
    background_validate_and_make_available(rp_state, Task(rp_state, candidate, "Second", {}))

\* the AttestingData made for a Seconded statement (lines 1148-1157)
AttestingDataFromFirst(candidate_hash, validator_index) ==
    [candidate |-> candidate_hash, from_validator |-> 0, backing |-> <<>>]
AttestingData(candidate_hash, validator_index) ==
    [candidate |-> candidate_hash, from_validator |-> validator_index, backing |-> <<>>]

\* attesting.backing.push(statement.validator_index()) (line 1173)
BackingPushNothing(backing, validator_index) == backing
BackingPush(backing, validator_index) == Append(backing, validator_index)

\* maybe_validate_and_import on a known relay parent:
\* [rp_state, out, spawned]
maybe_validate_and_import(rp_state0, statement, ord) ==
    LET imp == import_statement(rp_state0, statement, ord)
        rp_state == imp.rp_state
        c == statement.candidate
        done(st) == [rp_state |-> st, out |-> imp.out, spawned |-> {}]
        kick(st, attesting) ==
            LET k == kick_off_validation_work(st, attesting)
            IN  [rp_state |-> k.rp_state, out |-> imp.out, spawned |-> k.spawned]
    IN  IF imp.summary = {} THEN done(rp_state)
        ELSE IF {The(imp.summary).group_id} # rp_state.assignment THEN done(rp_state)
        ELSE IF statement.kind = "Seconded"
        THEN LET attesting == AttestingData(c, statement.sender)
             IN  kick([rp_state EXCEPT !.fallbacks = Put(@, c, attesting)], attesting)
        ELSE IF c \notin DOMAIN rp_state.fallbacks THEN done(rp_state)
        ELSE IF rp_state.table_context.validator = {statement.sender} THEN done(rp_state)
        ELSE IF c \in rp_state.awaiting_validation
        THEN done([rp_state EXCEPT !.fallbacks[c].backing = BackingPush(@, statement.sender)])
        ELSE LET attesting == [rp_state.fallbacks[c] EXCEPT !.from_validator = statement.sender]
             IN  kick([rp_state EXCEPT !.fallbacks[c] = attesting], attesting)

\* ------------------------------------------------------ signing statements
\* sign_statement: a statement is signed when the relay parent has our
\* Validator and the keystore produces the signature
sign_statement_without_key(rp_state, keystore_ok) == rp_state.table_context.validator # {}
sign_statement(rp_state, keystore_ok) == rp_state.table_context.validator # {} /\ keystore_ok

\* sign_import_and_distribute_statement: [rp_state, out, signed]
sign_import_and_distribute_statement(rp_state, kind, c, keystore_ok, ord) ==
    IF sign_statement(rp_state, keystore_ok)
    THEN LET signed_statement == [kind |-> kind, candidate |-> c,
                                  sender |-> The(rp_state.table_context.validator)]
             imp == import_statement(rp_state, signed_statement, ord)
         IN  [rp_state |-> imp.rp_state,
              out |-> imp.out \o << [to |-> "StatementDistribution", kind |-> "Share",
                                     relay_parent |-> rp_state.parent,
                                     statement |-> signed_statement] >>,
              signed |-> TRUE]
    ELSE [rp_state |-> rp_state, out |-> <<>>, signed |-> FALSE]

\* the table orders for importing our own statement
OwnTableOrders(rp_state, kind, c) ==
    IF rp_state.table_context.validator = {} THEN {<<>>}
    ELSE TableOrders(rp_state, [kind |-> kind, candidate |-> c,
                                sender |-> The(rp_state.table_context.validator)])

\* ---------------------------------------- handle_validated_candidate_command
\* a command: [kind (Second / Attest / AttestNoPoV), ok, candidate]
\* the sanity check `!rp_state.issued_statements.contains(&candidate_hash)`
\* of the Second and Attest arms (lines 726 and 769)
NotYetIssuedAlways(rp_state, candidate_hash) == TRUE
NotYetIssued(rp_state, candidate_hash) == candidate_hash \notin rp_state.issued_statements

\* rp_state.issued_statements.insert(candidate_hash) (lines 746 and 782)
IssuedInsertNothing(issued_statements, candidate_hash) == issued_statements
IssuedInsert(issued_statements, candidate_hash) == issued_statements \cup {candidate_hash}

\* issued_statements after the arm Second(Err(candidate)) (lines 757-763),
\* which only notifies the Collator Protocol
IssuedAfterInvalidMarked(issued_statements, candidate_hash) ==
    issued_statements \cup {candidate_hash}
IssuedAfterInvalid(issued_statements, candidate_hash) == issued_statements

\* res.is_ok() of the Attest arm (line 770)
res_is_ok_always(command) == TRUE
res_is_ok(command) == command.ok

\* rp_state.fallbacks.remove(&candidate_hash) (line 767)
FallbackRemoveNothing(fallbacks, candidate_hash) == fallbacks
FallbackRemove(fallbacks, candidate_hash) == Del(fallbacks, candidate_hash)

\* rp_state.awaiting_validation.remove(&candidate_hash) (line 711)
AwaitingRemoveNothing(awaiting_validation, candidate_hash) == awaiting_validation
AwaitingRemove(awaiting_validation, candidate_hash) == awaiting_validation \ {candidate_hash}

\* on a known relay parent: [rp_state, out, spawned]
handle_validated_candidate_command(rp_state0, command, keystore_ok, ord) ==
    LET c == command.candidate
        rp_state == [rp_state0 EXCEPT !.awaiting_validation = AwaitingRemove(@, c)]
        none == [rp_state |-> rp_state, out |-> <<>>, spawned |-> {}]
    IN
    CASE command.kind = "Second" ->
           IF command.ok
           THEN IF NotYetIssued(rp_state, c)
                THEN LET r == sign_import_and_distribute_statement(
                                  rp_state, "Seconded", c, keystore_ok, ord)
                     IN  IF r.signed
                         THEN [rp_state |-> [r.rp_state EXCEPT !.issued_statements = IssuedInsert(@, c)],
                               out |-> r.out \o << [to |-> "CollatorProtocol", kind |-> "Seconded",
                                                    relay_parent |-> rp_state.parent,
                                                    candidate |-> c] >>,
                               spawned |-> {}]
                         ELSE none
                ELSE none
           ELSE [none EXCEPT !.rp_state.issued_statements = IssuedAfterInvalid(@, c),
                             !.out = << [to |-> "CollatorProtocol", kind |-> "Invalid",
                                         relay_parent |-> rp_state.parent,
                                         candidate |-> c] >>]
      [] command.kind = "Attest" ->
           LET st == [rp_state EXCEPT !.fallbacks = FallbackRemove(@, c)]
           IN  IF NotYetIssued(st, c)
               THEN LET r == IF res_is_ok(command)
                             THEN sign_import_and_distribute_statement(
                                      st, "Valid", c, keystore_ok, ord)
                             ELSE [rp_state |-> st, out |-> <<>>, signed |-> FALSE]
                    IN  [rp_state |-> [r.rp_state EXCEPT !.issued_statements = IssuedInsert(@, c)],
                         out |-> r.out, spawned |-> {}]
               ELSE [none EXCEPT !.rp_state = st]
      [] command.kind = "AttestNoPoV" ->
           IF c \in DOMAIN rp_state.fallbacks /\ rp_state.fallbacks[c].backing # <<>>
           THEN LET backing == rp_state.fallbacks[c].backing
                    attesting == [rp_state.fallbacks[c] EXCEPT
                                     !.from_validator = backing[Len(backing)],
                                     !.backing = SubSeq(backing, 1, Len(backing) - 1)]
                    k == kick_off_validation_work(
                             [rp_state EXCEPT !.fallbacks[c] = attesting], attesting)
                IN  [rp_state |-> k.rp_state, out |-> <<>>, spawned |-> k.spawned]
           ELSE none

\* the table orders a command's own import may need
CommandTableOrders(rp_state, command) ==
    IF command.kind = "Second" /\ command.ok
    THEN OwnTableOrders(rp_state, "Seconded", command.candidate)
    ELSE IF command.kind = "Attest" /\ command.ok
    THEN OwnTableOrders(rp_state, "Valid", command.candidate)
    ELSE {<<>>}

\* ---------------------------------------------------------------- histories
Signed(msgs) ==
    [k \in Hashes \X Candidates \X Roles |->
        Min(2, nSigned[k]
               + Cardinality({i \in DOMAIN msgs :
                                /\ msgs[i].to = "StatementDistribution"
                                /\ msgs[i].relay_parent = k[1]
                                /\ msgs[i].statement.candidate = k[2]
                                /\ msgs[i].statement.kind = k[3]}))]

Backed(msgs) ==
    [k \in Hashes \X Candidates |->
        Min(2, nBacked[k]
               + Cardinality({i \in DOMAIN msgs :
                                /\ msgs[i].to = "Provisioner"
                                /\ msgs[i].kind = "BackedCandidate"
                                /\ msgs[i].relay_parent = k[1]
                                /\ msgs[i].backed.candidate = k[2]}))]

\* what a handler that ran on relay parent rp leaves behind
Commit(rp, r) ==
    /\ per_relay_parent' = [per_relay_parent EXCEPT ![rp] = r.rp_state]
    /\ out' = r.out
    /\ tasks' = tasks (+) SetToBag(r.spawned)
    /\ nSigned' = Signed(r.out)
    /\ nBacked' = Backed(r.out)

\* --------------------------------------------------------------- the actions
\* state.per_relay_parent.get_mut(&relay_parent) (lines 1126, 1261): Option
per_relay_parent_or_insert(relay_parents, relay_parent) ==
    IF relay_parent \in DOMAIN relay_parents THEN {relay_parents[relay_parent]}
    ELSE {construct_per_relay_parent_state(relay_parent)}
per_relay_parent_get_mut(relay_parents, relay_parent) ==
    IF relay_parent \in DOMAIN relay_parents THEN {relay_parents[relay_parent]} ELSE {}

\* the table of the relay parent holds this vote of this validator
AlreadyVoted(relay_parent, statement) ==
    /\ relay_parent \in DOMAIN per_relay_parent
    /\ LET votes == per_relay_parent[relay_parent].table.candidate_votes
       IN  /\ statement.candidate \in DOMAIN votes
           /\ statement.sender \in DOMAIN votes[statement.candidate]
           /\ votes[statement.candidate][statement.sender] = statement.kind

\* the command asks for a statement to be signed (lines 725-726, 769-770)
\* and no key signs it: the relay parent has no Validator or the keystore
\* yields no signature
NoKey(rp_state, command, keystore_ok) ==
    /\ command.kind \in {"Second", "Attest"} /\ command.ok
    /\ command.candidate \notin rp_state.issued_statements
    /\ (rp_state.table_context.validator = {} \/ ~keystore_ok)

\* CandidateBackingMessage::Statement(relay_parent, statement)
HandleStatementMessage ==
    /\ nMsgs < MaxMsgs
    /\ nMsgs' = nMsgs + 1
    /\ \E relay_parent \in Hashes, statement \in Statements :
        /\ last' = [Event("Statement", relay_parent, statement.candidate, statement.kind,
                          FALSE, statement.sender)
                        EXCEPT !.repeated = AlreadyVoted(relay_parent, statement)]
        /\ LET r == per_relay_parent_get_mut(per_relay_parent, relay_parent)
           IN  IF r = {}
               THEN /\ out' = <<>>
                    /\ UNCHANGED <<per_relay_parent, tasks, nSigned, nBacked>>
               ELSE \E ord \in TableOrders(The(r), statement) :
                       Commit(relay_parent,
                              maybe_validate_and_import(The(r), statement, ord))
    /\ UNCHANGED <<implicit_view, per_leaf, per_candidate, channel, active, nUpdates>>

\* handle_second_msg: the tasks it spawns.  After the checks of the relay
\* parent and of the assignment the function returns; the call of
\* validate_and_second is commented out (lines 1287-1303)
handle_second_msg(relay_parent, candidate) ==
    IF relay_parent \notin DOMAIN per_relay_parent
    THEN {}
    ELSE IF {ParaOf(candidate)} # per_relay_parent[relay_parent].assignment
    THEN {}
    ELSE {}

\* CandidateBackingMessage::Second(relay_parent, candidate, pov)
HandleSecondMsg ==
    /\ nMsgs < MaxMsgs
    /\ nMsgs' = nMsgs + 1
    /\ \E relay_parent \in Hashes, candidate \in Candidates :
        /\ last' = Event("Second", relay_parent, candidate, "", FALSE, 0)
        /\ tasks' = tasks (+) SetToBag(handle_second_msg(relay_parent, candidate))
        /\ out' = <<>>
    /\ UNCHANGED <<implicit_view, per_leaf, per_relay_parent, per_candidate, channel,
                   active, nSigned, nBacked, nUpdates>>

\* ------------------------------------------------ validate_and_make_available
\* what the collaborators can answer a task
TaskOutcomes == {"FetchPoVFailed", "ValidationError", "InvalidCommitmentsHashMismatch",
                 "InvalidOther", "ErasureCodingError", "InvalidErasureRoot",
                 "StoreFailed", "Valid"}

\* the command sent when request_pov fails (lines 1626-1634)
fetch_failed_attest_err(candidate_hash) ==
    {[kind |-> "Attest", ok |-> FALSE, candidate |-> candidate_hash]}
fetch_failed_command(candidate_hash) ==
    {[kind |-> "AttestNoPoV", ok |-> FALSE, candidate |-> candidate_hash]}

\* make_pov_available when the erasure root differs from the expected one
\* (lines 1528-1530): the messages sent, `store` being StoreAvailableData,
\* which is sent after the comparison only (line 1536)
erasure_root_mismatch_stored(sent, store) == sent \o store
erasure_root_mismatch(sent, store) == sent

\* [out : the messages the task sends, command : Option<command>]
validate_and_make_available(params, outcome) ==
    LET c == params.candidate
        fetch == IF params.pov = {} THEN <<>>
                 ELSE << [to |-> "AvailabilityDistribution", kind |-> "FetchPoV",
                          relay_parent |-> params.relay_parent,
                          from_validator |-> The(params.pov),
                          candidate_hash |-> c] >>
        validate == << [to |-> "CandidateValidation", kind |-> "ValidateFromChainState",
                        candidate_hash |-> c] >>
        store == << [to |-> "AvailabilityStore", kind |-> "StoreAvailableData",
                     candidate_hash |-> c, n_validators |-> params.n_validators] >>
        result(ok) == {[kind |-> params.make_command, ok |-> ok, candidate |-> c]}
    IN
    CASE outcome = "FetchPoVFailed" ->
            [out |-> fetch, command |-> fetch_failed_command(c)]
      [] outcome = "ValidationError" ->
            [out |-> fetch \o validate, command |-> {}]
      [] outcome \in {"InvalidCommitmentsHashMismatch", "InvalidOther"} ->
            [out |-> fetch \o validate, command |-> result(FALSE)]
      [] outcome = "ErasureCodingError" ->
            [out |-> fetch \o validate, command |-> {}]
      [] outcome = "InvalidErasureRoot" ->
            [out |-> erasure_root_mismatch(fetch \o validate, store), command |-> result(FALSE)]
      [] outcome = "StoreFailed" ->
            [out |-> fetch \o validate \o store, command |-> {}]
      [] outcome = "Valid" ->
            [out |-> fetch \o validate \o store, command |-> result(TRUE)]

\* a spawned task runs to its end
RunTask ==
    \E params \in BagToSet(tasks), outcome \in TaskOutcomes :
        /\ outcome = "FetchPoVFailed" => params.pov # {}
        /\ LET r == validate_and_make_available(params, outcome)
           IN  /\ r.command # {} => Len(channel) < ChannelCapacity
               /\ channel' = IF r.command = {} THEN channel
                             ELSE Append(channel, [relay_parent |-> params.relay_parent,
                                                   command |-> The(r.command)])
               /\ out' = r.out
        /\ tasks' = tasks (-) SetToBag({params})
        /\ last' = Event("Task", params.relay_parent, params.candidate, outcome, FALSE, 0)
        /\ UNCHANGED <<implicit_view, per_leaf, per_relay_parent, per_candidate, active,
                       nSigned, nBacked, nUpdates, nMsgs>>

\* background_validation_rx.next(): the loop receives a result
HandleValidatedCandidateCommand ==
    /\ channel # <<>>
    /\ channel' = Tail(channel)
    /\ LET relay_parent == Head(channel).relay_parent
           command == Head(channel).command
           event == Event("Command", relay_parent, command.candidate, command.kind,
                          command.ok, 0)
       IN  IF relay_parent \notin DOMAIN per_relay_parent
           THEN /\ last' = event
                /\ out' = <<>>
                /\ UNCHANGED <<per_relay_parent, tasks, nSigned, nBacked>>
           ELSE \E keystore_ok \in BOOLEAN,
                   ord \in CommandTableOrders(per_relay_parent[relay_parent], command) :
                   /\ last' = [event EXCEPT !.no_key =
                                   NoKey(per_relay_parent[relay_parent], command, keystore_ok)]
                   /\ Commit(relay_parent,
                             handle_validated_candidate_command(
                                 per_relay_parent[relay_parent], command, keystore_ok, ord))
    /\ UNCHANGED <<implicit_view, per_leaf, per_candidate, active, nUpdates, nMsgs>>

Next ==
    \/ ActiveLeavesUpdate
    \/ HandleStatementMessage
    \/ HandleSecondMsg
    \/ RunTask
    \/ HandleValidatedCandidateCommand

Spec == Init /\ [][Next]_vars

\* ------------------------------------------------------------- seconding
\* the sanity check that the candidate is from our assignment (line 1276)
NotOurAssignmentNever(rp_state, candidate) == FALSE
NotOurAssignment(rp_state, candidate) == {ParaOf(candidate)} # rp_state.assignment

\* handle_second_msg with the call of validate_and_second (lines 1212-1246)
\* that lines 1297-1302 hold commented out: [rp_state, spawned] on a known
\* relay parent to whose assignment the candidate belongs, nothing otherwise
handle_second_msg_seconding(relay_parent, candidate) ==
    LET r == per_relay_parent_get_mut(per_relay_parent, relay_parent)
    IN  IF r = {}
        THEN {}
        ELSE IF NotOurAssignment(The(r), candidate)
        THEN {}
        ELSE {validate_and_second(The(r), candidate)}

\* CandidateBackingMessage::Second(relay_parent, candidate, pov), seconding
HandleSecondMsgSeconding ==
    /\ nMsgs < MaxMsgs
    /\ nMsgs' = nMsgs + 1
    /\ \E relay_parent \in Hashes, candidate \in Candidates :
        /\ last' = Event("Second", relay_parent, candidate, "", FALSE, 0)
        /\ LET r == handle_second_msg_seconding(relay_parent, candidate)
           IN  IF r = {}
               THEN UNCHANGED <<per_relay_parent, tasks>>
               ELSE /\ per_relay_parent' = [per_relay_parent EXCEPT
                                               ![relay_parent] = The(r).rp_state]
                    /\ tasks' = tasks (+) SetToBag(The(r).spawned)
        /\ out' = <<>>
    /\ UNCHANGED <<implicit_view, per_leaf, per_candidate, channel, active,
                   nSigned, nBacked, nUpdates>>

\* the handlers, Second messages leading to validation
NextSeconding ==
    \/ ActiveLeavesUpdate
    \/ HandleStatementMessage
    \/ HandleSecondMsgSeconding
    \/ RunTask
    \/ HandleValidatedCandidateCommand

SpecSeconding == Init /\ [][NextSeconding]_vars

\* ------------------------------------------------------ GetBackedCandidates
\* the closure of the filter_map (lines 1864-1868): the bundle of one
\* requested hash, as a sequence of no or one element
BackedBundle(rp_state, hash, ord) ==
    LET attested == attested_candidate(rp_state.table, rp_state.table_context, hash, ord)
        backed == IF attested = {} THEN {}
                  ELSE table_attested_to_backed(The(attested), rp_state.table_context)
    IN  IF backed = {} THEN <<>> ELSE << The(backed) >>

\* handle_get_backed_candidates_message: the list sent on tx; ords[i] is the
\* order in which the table lists the votes of requested[i]
RECURSIVE handle_get_backed_candidates_reversed(_, _, _)
handle_get_backed_candidates_reversed(rp_state, requested_candidates, ords) ==
    IF requested_candidates = <<>> THEN <<>>
    ELSE handle_get_backed_candidates_reversed(rp_state, Tail(requested_candidates), Tail(ords))
         \o BackedBundle(rp_state, Head(requested_candidates), Head(ords))
RECURSIVE handle_get_backed_candidates_message(_, _, _)
handle_get_backed_candidates_message(rp_state, requested_candidates, ords) ==
    IF requested_candidates = <<>> THEN <<>>
    ELSE BackedBundle(rp_state, Head(requested_candidates), Head(ords))
         \o handle_get_backed_candidates_message(rp_state, Tail(requested_candidates), Tail(ords))

\* the lists of hashes a request asks for
Requests == Candidates \X Candidates

\* the orders the table may list the votes of a requested hash in
VoteOrders(rp_state, hash) ==
    IF hash \in DOMAIN rp_state.table.candidate_votes
    THEN Perms(DOMAIN rp_state.table.candidate_votes[hash])
    ELSE {<<>>}

\* CandidateBackingMessage::GetBackedCandidates(relay_parent, requested, tx):
\* the reply for a relay parent that has a table, none for another one
HandleGetBackedCandidates ==
    /\ nMsgs < MaxMsgs
    /\ nMsgs' = nMsgs + 1
    /\ \E relay_parent \in Hashes, requested \in Requests :
        /\ last' = [Event("GetBackedCandidates", relay_parent, 0, "", FALSE, 0)
                        EXCEPT !.requested = requested]
        /\ IF relay_parent \notin DOMAIN per_relay_parent
           THEN out' = <<>>
           ELSE LET rp_state == per_relay_parent[relay_parent]
                IN  \E o1 \in VoteOrders(rp_state, requested[1]),
                       o2 \in VoteOrders(rp_state, requested[2]) :
                       out' = << [to |-> "Requester", kind |-> "BackedCandidates",
                                  relay_parent |-> relay_parent,
                                  backed |-> handle_get_backed_candidates_message(
                                                rp_state, requested, <<o1, o2>>)] >>
    /\ UNCHANGED <<implicit_view, per_leaf, per_relay_parent, per_candidate, tasks, channel,
                   active, nSigned, nBacked, nUpdates>>

\* the handlers, GetBackedCandidates among them
NextQueries == Next \/ HandleGetBackedCandidates

SpecQueries == Init /\ [][NextQueries]_vars

\* ----------------------------------------------------------- run_iteration
\* the messages the overseer can deliver
Communications ==
    {[Event("Statement", rp, st.candidate, st.kind, FALSE, st.sender) EXCEPT
         !.repeated = AlreadyVoted(rp, st)] : rp \in Hashes, st \in Statements}
    \cup {Event("Second", rp, c, "", FALSE, 0) : rp \in Hashes, c \in Candidates}
    \cup {[Event("GetBackedCandidates", rp, 0, "", FALSE, 0) EXCEPT !.requested = rq] :
              rp \in Hashes, rq \in Requests}

\* the arm FromOverseer::Communication { msg } of run_iteration (lines
\* 367-370): the call of handle_communication is commented out, the message
\* is received and nothing is done with it
Communication ==
    /\ nMsgs < MaxMsgs
    /\ nMsgs' = nMsgs + 1
    /\ \E msg \in Communications : last' = msg
    /\ out' = <<>>
    /\ UNCHANGED <<implicit_view, per_leaf, per_relay_parent, per_candidate, tasks, channel,
                   active, nSigned, nBacked, nUpdates>>

\* run_iteration: the signals and messages of the overseer (no background
\* result is ever received, no task being spawned)
NextLoop == ActiveLeavesUpdate \/ Communication

SpecLoop == Init /\ [][NextLoop]_vars

\* ------------------------------------------------------------------ signals
\* the loop of run (lines 318-326) goes on until run_iteration returns Ok(()),
\* which it does on OverseerSignal::Conclude (line 366) only; `last` tells
\* whether that signal has been received
RunningForever == TRUE
Running == last.event # "Conclude"

\* FromOverseer::Signal(OverseerSignal::BlockFinalized(..)) => {} (line 365)
BlockFinalized ==
    /\ Running
    /\ last' = Event("BlockFinalized", 0, 0, "", FALSE, 0)
    /\ out' = <<>>
    /\ UNCHANGED <<implicit_view, per_leaf, per_relay_parent, per_candidate, tasks, channel,
                   active, nSigned, nBacked, nUpdates, nMsgs>>

\* FromOverseer::Signal(OverseerSignal::Conclude) => return Ok(()) (line 366)
Conclude ==
    /\ Running
    /\ last' = Event("Conclude", 0, 0, "", FALSE, 0)
    /\ out' = <<>>
    /\ UNCHANGED <<implicit_view, per_leaf, per_relay_parent, per_candidate, tasks, channel,
                   active, nSigned, nBacked, nUpdates, nMsgs>>

\* the handlers and the signals, until the loop is left
NextSignals ==
    \/ Running /\ ActiveLeavesUpdate
    \/ Running /\ HandleStatementMessage
    \/ Running /\ HandleSecondMsg
    \/ Running /\ RunTask
    \/ Running /\ HandleValidatedCandidateCommand
    \/ BlockFinalized
    \/ Conclude

SpecSignals == Init /\ [][NextSignals]_vars

\* ------------------------------------------------- prospective parachains
\* what the activation step (lines 425-442) yields for a leaf on which
\* prospective parachains are enabled, the branch that is taken once
\* prospective_parachains_mode answers Enabled
EnabledResults(activated) ==
    IF activated = {} THEN {[mode |-> "None"]}
    ELSE {[mode |-> "Enabled", view |-> r] : r \in ActivateLeafResults(The(activated))}

\* OverseerSignal::ActiveLeaves(update), the leaves having prospective
\* parachains enabled and every runtime request of the construction answered
ActiveLeavesUpdateEnabled ==
    /\ nUpdates < MaxUpdates
    /\ \E activated \in {{}} \cup {{h} : h \in Hashes \ active},
          deactivated \in SUBSET active :
        /\ activated \cup deactivated # {}
        /\ \E res \in EnabledResults(activated) :
           \E failing \in {{}},
              membership \in [Candidates -> {{}}] :
                /\ handle_active_leaves_update(activated, deactivated, res, membership, failing)
                /\ last' = [Event("Leaves", 0, 0, "", FALSE, 0) EXCEPT
                                !.activated = activated, !.deactivated = deactivated,
                                !.failing = failing, !.before = DOMAIN per_relay_parent]
        /\ active' = (active \ deactivated) \cup activated
    /\ nUpdates' = nUpdates + 1
    /\ out' = <<>>
    /\ UNCHANGED <<tasks, channel, nSigned, nBacked, nMsgs>>

\* the leaves updates and the statements that fill the tables between them,
\* every leaf having prospective parachains enabled
NextEnabled ==
    \/ ActiveLeavesUpdateEnabled
    \/ HandleStatementMessage

SpecEnabled == Init /\ [][NextEnabled]_vars

\* ------------------------------------------------------------ scheduling
\* the handlers under the scheduling the program runs with: the executor
\* polls every spawned task until it ends (ctx.spawn, line 1060), and the
\* loop's select takes a result that waits on background_validation_rx
\* (lines 339-348)
SpecFair ==
    /\ Init /\ [][Next]_vars
    /\ WF_vars(RunTask)
    /\ WF_vars(HandleValidatedCandidateCommand)

\* ================================================================= claims
\* helpers of the properties below
Known == DOMAIN per_relay_parent
Voters(rp_state, c) ==
    IF c \in DOMAIN rp_state.table.candidate_votes
    THEN DOMAIN rp_state.table.candidate_votes[c] ELSE {}
IsBackedMsg(m) == m.to = "Provisioner" /\ m.kind = "BackedCandidate"
IsShareMsg(m) == m.to = "StatementDistribution"
BackedMsgs(msgs) == {msgs[i] : i \in {j \in DOMAIN msgs : IsBackedMsg(msgs[j])}}
ShareMsgs(msgs) == {msgs[i] : i \in {j \in DOMAIN msgs : IsShareMsg(msgs[j])}}
\* tasks spawned and results not yet handled, for a relay parent and candidate
InFlight(rp, c) ==
    LET running == {t \in BagToSet(tasks) : t.relay_parent = rp /\ t.candidate = c}
        Copies(t) == CopiesIn(t, tasks)
        RECURSIVE Sum(_)
        Sum(S) == IF S = {} THEN 0
                  ELSE LET t == CHOOSE x \in S : TRUE IN Copies(t) + Sum(S \ {t})
    IN  Sum(running)
        + Cardinality({i \in DOMAIN channel :
                          channel[i].relay_parent = rp /\ channel[i].command.candidate = c})

\* C1: for every relay parent and candidate the node signs and shares at most
\* one Seconded and at most one Valid statement, and a statement is signed
\* only for a candidate that is not yet in issued_statements
C1_SignedAtMostOnce ==
    /\ [](\A k \in DOMAIN nSigned : nSigned[k] <= 1)
    /\ [][\A m \in ShareMsgs(out') :
            /\ m.relay_parent \in Known
            /\ m.statement.candidate
                  \notin per_relay_parent[m.relay_parent].issued_statements]_vars

\* a Valid statement was signed for a candidate, and afterwards another
\* Seconded statement for it was accepted (its fallback is back) without a
\* second ruling
C1_Witness ==
    \E rp \in Known, c \in Candidates :
        /\ nSigned[<<rp, c, "Valid">>] = 1
        /\ c \in per_relay_parent[rp].issued_statements
        /\ last.event = "Statement" /\ last.kind = "Seconded"
        /\ last.relay_parent = rp /\ last.candidate = c
        /\ last.sender \in Voters(per_relay_parent[rp], c)
        /\ Cardinality(Voters(per_relay_parent[rp], c)) = 3

\* C2: a BackedCandidate is sent only when the candidate's votes in the table
\* reach min(2, |group|) of its para's group; an import that adds a vote and
\* leaves a not yet backed candidate with that many votes sends it in the same
\* step; a candidate whose para has no group is never backed
C2_BackedIffThreshold ==
    /\ [](\A rp \in Known, c \in Candidates :
            ParaOf(c) \notin DOMAIN per_relay_parent[rp].table_context.groups
                => c \notin per_relay_parent[rp].backed /\ nBacked[<<rp, c>>] = 0)
    /\ [][/\ \A m \in BackedMsgs(out') :
               LET st == per_relay_parent'[m.relay_parent]
                   c == m.backed.candidate
               IN  /\ ParaOf(c) \in DOMAIN st.table_context.groups
                   /\ Cardinality(Voters(st, c))
                         >= Min(2, Len(st.table_context.groups[ParaOf(c)]))
          /\ \A rp \in Known \cap DOMAIN per_relay_parent', c \in Candidates :
               LET st == per_relay_parent'[rp]
               IN  (/\ Voters(st, c) # Voters(per_relay_parent[rp], c)
                    /\ ParaOf(c) \in DOMAIN st.table_context.groups
                    /\ Cardinality(Voters(st, c))
                          >= Min(2, Len(st.table_context.groups[ParaOf(c)]))
                    /\ c \notin per_relay_parent[rp].backed)
                   => \E m \in BackedMsgs(out') :
                         m.relay_parent = rp /\ m.backed.candidate = c]_vars

\* a candidate of a three-member group was just backed with two votes, while
\* a candidate whose para has no group at its relay parent got a statement
C2_Witness ==
    /\ \E m \in BackedMsgs(out) :
          /\ Len(m.backed.validator_indices) = 3
          /\ Len(m.backed.validity_votes) = 2
    /\ \E rp \in Known, c \in Candidates :
          ParaOf(c) \notin DOMAIN per_relay_parent[rp].table_context.groups

\* C3: a candidate enters a relay parent's backed set at most once and never
\* leaves it while the entry exists, and at most one BackedCandidate message
\* per (relay parent, candidate) is ever sent
C3_BackedOnce ==
    /\ [](\A k \in DOMAIN nBacked : nBacked[k] <= 1)
    /\ [][\A rp \in Known \cap DOMAIN per_relay_parent' :
            per_relay_parent[rp].backed \subseteq per_relay_parent'[rp].backed]_vars

\* a backed candidate got a further vote after it was reported
C3_Witness ==
    \E rp \in Known, c \in Candidates :
        /\ nBacked[<<rp, c>>] = 1
        /\ c \in per_relay_parent[rp].backed
        /\ Cardinality(Voters(per_relay_parent[rp], c)) = 3
        /\ last.event = "Statement" /\ last.candidate = c /\ last.relay_parent = rp
        /\ BackedMsgs(out) = {}

\* the positions (1-based) of the set bits of a bitfield, ascending
RECURSIVE SetBits(_, _)
SetBits(bits, from) ==
    IF from > Len(bits) THEN <<>>
    ELSE (IF bits[from] THEN <<from>> ELSE <<>>) \o SetBits(bits, from + 1)

\* C4: the BackedCandidate built for an attested candidate has a bitfield of
\* the group's length, bit i set iff the i-th group member voted, as many set
\* bits as validity votes, and validity_votes[k] is the vote of the member at
\* the k-th set bit, in whatever order the table listed the votes
C4_BitfieldMatchesVotes ==
    \A m \in BackedMsgs(out) :
        LET st == per_relay_parent[m.relay_parent]
            c == m.backed.candidate
            group == st.table_context.groups[ParaOf(c)]
            bits == m.backed.validator_indices
            votes == m.backed.validity_votes
            set == SetBits(bits, 1)
        IN  /\ Len(bits) = Len(group)
            /\ \A i \in 1..Len(group) : bits[i] <=> group[i] \in Voters(st, c)
            /\ Len(set) = Len(votes)
            /\ \A k \in 1..Len(votes) :
                  /\ votes[k].by = group[set[k]]
                  /\ votes[k].kind =
                        IF st.table.candidate_votes[c][votes[k].by] = "Seconded"
                        THEN "Implicit" ELSE "Explicit"

\* a candidate was backed by two members whose group order is not their
\* index order
C4_Witness ==
    \E m \in BackedMsgs(out) :
        /\ Len(m.backed.validity_votes) = 2
        /\ m.backed.validity_votes[1].by > m.backed.validity_votes[2].by
        /\ m.backed.validator_indices = <<TRUE, TRUE, FALSE>>

\* C5: awaiting_validation and issued_statements of a relay parent are
\* disjoint after every event, and no task is spawned for a candidate the
\* node has already ruled on
C5_AwaitingIssuedDisjoint ==
    /\ [](\A rp \in Known :
            per_relay_parent[rp].awaiting_validation
                \cap per_relay_parent[rp].issued_statements = {})
    /\ [][\A t \in BagToSet(tasks') :
            CopiesIn(t, tasks') > CopiesIn(t, tasks)
                => /\ t.relay_parent \in Known
                   /\ t.candidate \notin per_relay_parent[t.relay_parent].issued_statements]_vars

\* one candidate has been ruled on while another is being validated
C5_Witness ==
    \E rp \in Known :
        /\ per_relay_parent[rp].issued_statements # {}
        /\ per_relay_parent[rp].awaiting_validation # {}
        /\ last.event = "Statement"
        /\ last.candidate \in per_relay_parent[rp].issued_statements
        /\ last.relay_parent = rp
        /\ last.candidate \in DOMAIN per_relay_parent[rp].fallbacks

\* C6: at most one background validation task is in flight per (relay parent,
\* candidate)
C6_OneTaskInFlight ==
    \A rp \in Hashes, c \in Candidates : InFlight(rp, c) <= 1

\* while a task for a candidate is in flight, a Seconded statement of another
\* validator asked for validation again and nothing was spawned
C6_Witness ==
    \E rp \in Known, c \in Candidates :
        /\ InFlight(rp, c) = 1
        /\ last.event = "Statement" /\ last.kind = "Seconded"
        /\ last.relay_parent = rp /\ last.candidate = c
        /\ c \in DOMAIN per_relay_parent[rp].fallbacks
        /\ per_relay_parent[rp].fallbacks[c].from_validator = last.sender
        /\ \E t \in BagToSet(tasks) :
              t.relay_parent = rp /\ t.candidate = c /\ t.pov # {last.sender}

\* C7: after an active-leaves update whose runtime queries succeed, the keys
\* of per_relay_parent are the active leaves and the relay parents the
\* implicit view allows (given that they were before the update)
C7_RelayParentsAreActiveOrAllowed ==
    [][(/\ last'.event = "Leaves" /\ nUpdates' = nUpdates + 1
        /\ last'.failing = {}
        /\ Known = active \cup all_allowed_relay_parents(implicit_view))
       => DOMAIN per_relay_parent' = active' \cup all_allowed_relay_parents(implicit_view')]_vars

\* C8: activating a leaf and deactivating it in the next event leaves
\* per_relay_parent and per_candidate as they were before the activation
C8_ActivateDeactivateRestores ==
    [][(/\ last.event = "Leaves" /\ last.deactivated = {} /\ last.activated # {}
        /\ nUpdates' = nUpdates + 1
        /\ last'.activated = {} /\ last'.deactivated = last.activated)
       => /\ DOMAIN per_relay_parent' = last.before
          /\ \A rp \in last.before : per_relay_parent'[rp] = per_relay_parent[rp]
          /\ per_candidate' = per_candidate]_vars

Votes(rp) == per_relay_parent[rp].table.candidate_votes

\* C11: for each (candidate, validator) a relay parent's table holds at most
\* one vote, a Seconded or a Valid one, and a vote once recorded is neither
\* replaced nor removed: a second, different vote of the same validator for
\* the same candidate is not recorded
C11_OneVotePerValidator ==
    /\ [](\A rp \in Known : \A c \in DOMAIN Votes(rp) : \A v \in DOMAIN Votes(rp)[c] :
            Votes(rp)[c][v] \in Roles)
    /\ [][\A rp \in Known \cap DOMAIN per_relay_parent' :
            \A c \in DOMAIN Votes(rp) : \A v \in DOMAIN Votes(rp)[c] :
                /\ c \in DOMAIN Votes(rp)'
                /\ v \in DOMAIN Votes(rp)'[c]
                /\ Votes(rp)'[c][v] = Votes(rp)[c][v]]_vars

\* a validator whose vote on a candidate is recorded has just sent the other
\* kind of vote on it
C11_Witness ==
    /\ last.event = "Statement"
    /\ last.relay_parent \in Known
    /\ last.candidate \in DOMAIN Votes(last.relay_parent)
    /\ last.sender \in DOMAIN Votes(last.relay_parent)[last.candidate]
    /\ Votes(last.relay_parent)[last.candidate][last.sender] # last.kind

Reports(msgs) ==
    {i \in DOMAIN msgs : msgs[i].to = "Provisioner" /\ msgs[i].kind = "MisbehaviorReport"}
InGroup(rp, v, para) ==
    /\ para \in DOMAIN per_relay_parent[rp].table_context.groups
    /\ \E i \in DOMAIN per_relay_parent[rp].table_context.groups[para] :
          per_relay_parent[rp].table_context.groups[para][i] = v
\* validator v's statement (kind, c), imported into the table relay parent rp
\* has before the step, is the misbehavior `report`
Misbehaves(rp, v, kind, c, report) ==
    LET table == per_relay_parent[rp].table
    IN  CASE report.kind = "UnauthorizedStatement" ->
                /\ report.a = c /\ report.b = c
                /\ ~InGroup(rp, v, ParaOf(c))
                /\ kind = "Seconded" \/ c \in DOMAIN table.candidate_votes
          [] report.kind = "MultipleCandidates" ->
                /\ kind = "Seconded" /\ report.b = c /\ report.a # c
                /\ InGroup(rp, v, ParaOf(c))
                /\ v \in DOMAIN table.authority_data
                /\ table.authority_data[v] = report.a
          [] report.kind = "ValidityDoubleVote" ->
                /\ report.a = c /\ report.b = c
                /\ InGroup(rp, v, ParaOf(c))
                /\ c \in DOMAIN table.candidate_votes
                /\ v \in DOMAIN table.candidate_votes[c]
                /\ table.candidate_votes[c][v] # kind
                /\ kind = "Seconded" =>
                      \/ v \notin DOMAIN table.authority_data
                      \/ table.authority_data[v] = c
          [] OTHER -> FALSE
MisbehaviorReports ==
    [kind : {"UnauthorizedStatement", "MultipleCandidates", "ValidityDoubleVote"},
     a : Candidates, b : Candidates]

\* C12: every misbehavior the table records while a statement is imported at
\* a relay parent is sent to the Provisioner as a MisbehaviorReport for that
\* relay parent once, after the other messages of that import, and no later
\* import reports it again: the reports of a step are those of the statement
\* imported in the step, and the table keeps no misbehavior afterwards
C12_MisbehaviorReportedOnce ==
    /\ [](\A rp \in Known : per_relay_parent[rp].table.detected_misbehavior = {})
    /\ [][LET rp == last'.relay_parent
              c == last'.candidate
              mine == last'.event = "Command"
              v == IF mine /\ rp \in Known /\ per_relay_parent[rp].table_context.validator # {}
                   THEN The(per_relay_parent[rp].table_context.validator)
                   ELSE last'.sender
              kind == IF mine THEN (IF last'.kind = "Second" THEN "Seconded" ELSE "Valid")
                      ELSE last'.kind
          IN  /\ Reports(out') # {} => last'.event \in {"Statement", "Command"} /\ rp \in Known
              /\ \A i \in Reports(out') :
                    /\ out'[i].relay_parent = rp
                    /\ out'[i].validator = v
                    /\ Misbehaves(rp, v, kind, c, out'[i].report)
                    /\ \A j \in DOMAIN out' :
                          j > i => /\ out'[j] # out'[i]
                                   /\ out'[j].to # "DisputeCoordinator"
                                   /\ ~IsBackedMsg(out'[j])
              /\ (/\ last'.event = "Statement" /\ nMsgs' = nMsgs + 1 /\ rp \in Known
                  /\ v < Len(per_relay_parent[rp].table_context.validators))
                 => \A report \in MisbehaviorReports :
                       Misbehaves(rp, v, kind, c, report)
                           => \E i \in Reports(out') : out'[i].report = report]_vars

\* a validator that seconded one candidate has just seconded another one at
\* the same relay parent, and the report went out
C12_Witness ==
    /\ last.event = "Statement" /\ last.kind = "Seconded"
    /\ last.relay_parent \in Known
    /\ last.sender \in DOMAIN per_relay_parent[last.relay_parent].table.authority_data
    /\ \E i \in Reports(out) :
          /\ out[i].report.kind = "MultipleCandidates"
          /\ out[i].report.b = last.candidate
          /\ out[i].report.a =
                per_relay_parent[last.relay_parent].table.authority_data[last.sender]
          /\ out[i].validator = last.sender
          /\ Cardinality(Reports(out)) = 1

\* C13: importing a signed statement whose vote the table already holds
\* leaves the table's votes, its proposals and the backed set of the relay
\* parent as they were, and sends no BackedCandidate
C13_ReimportChangesNothing ==
    [][(last'.event = "Statement" /\ nMsgs' = nMsgs + 1 /\ last'.repeated)
       => LET rp == last'.relay_parent
          IN  /\ per_relay_parent'[rp].table.candidate_votes
                    = per_relay_parent[rp].table.candidate_votes
              /\ per_relay_parent'[rp].table.authority_data
                    = per_relay_parent[rp].table.authority_data
              /\ per_relay_parent'[rp].backed = per_relay_parent[rp].backed
              /\ BackedMsgs(out') = {}
              /\ nBacked' = nBacked]_vars

\* the Seconded statement that proposed a candidate is imported again when
\* the candidate has the votes of two validators and is backed
C13_Witness ==
    /\ last.event = "Statement" /\ last.repeated /\ last.kind = "Seconded"
    /\ last.relay_parent \in Known
    /\ last.candidate \in per_relay_parent[last.relay_parent].backed
    /\ Cardinality(Voters(per_relay_parent[last.relay_parent], last.candidate)) = 2
    /\ nBacked[<<last.relay_parent, last.candidate>>] = 1

\* C14: every Second, Statement and GetBackedCandidates message the event
\* loop receives is passed to its handler and acts on per_relay_parent: a
\* statement for a known relay parent is imported as maybe_validate_and_import
\* does, a Second message does what handle_second_msg does, and a request for
\* the backed candidates of a known relay parent is answered
C14_MessagesReachHandlers ==
    [][(nMsgs' = nMsgs + 1 /\ last'.relay_parent \in Known)
       => LET rp == last'.relay_parent
              statement == [kind |-> last'.kind, candidate |-> last'.candidate,
                            sender |-> last'.sender]
          IN  CASE last'.event = "Statement" ->
                     \E ord \in TableOrders(per_relay_parent[rp], statement) :
                        LET r == maybe_validate_and_import(per_relay_parent[rp], statement, ord)
                        IN  /\ per_relay_parent'[rp] = r.rp_state
                            /\ out' = r.out
                            /\ tasks' = tasks (+) SetToBag(r.spawned)
                [] last'.event = "Second" ->
                     tasks' = tasks (+) SetToBag(handle_second_msg(rp, last'.candidate))
                [] last'.event = "GetBackedCandidates" ->
                     \E i \in DOMAIN out' : out'[i].kind = "BackedCandidates"
                [] OTHER -> TRUE]_vars

\* the candidate has a group at the relay parent and at least min(2, |group|)
\* votes in its table
Attested(rp, c) ==
    /\ ParaOf(c) \in DOMAIN per_relay_parent[rp].table_context.groups
    /\ Cardinality(Voters(per_relay_parent[rp], c))
          >= Min(2, Len(per_relay_parent[rp].table_context.groups[ParaOf(c)]))
RECURSIVE AttestedOf(_, _)
AttestedOf(rp, requested) ==
    IF requested = <<>> THEN <<>>
    ELSE (IF Attested(rp, Head(requested)) THEN <<Head(requested)>> ELSE <<>>)
         \o AttestedOf(rp, Tail(requested))

CommandStep == channel # <<>> /\ channel' = Tail(channel) /\ Head(channel).relay_parent \in Known
\* the tasks for candidate c at relay parent rp among a bag of tasks
AttestTasks(bag, rp, c) ==
    {t \in BagToSet(bag) : t.relay_parent = rp /\ t.candidate = c /\ t.make_command = "Attest"}

\* C16: when a Second task reports failure for candidate c at relay parent L,
\* the coordinator sends CollatorProtocol::Invalid(L, c) and nothing else,
\* signs and imports nothing and leaves issued_statements as it was; and a
\* peer's Seconded statement for a candidate of our assignment that is neither
\* in issued_statements nor being validated spawns an Attest task
C16_InvalidSecondingNotIssued ==
    [][/\ (CommandStep /\ Head(channel).command.kind = "Second" /\ ~Head(channel).command.ok)
          => LET rp == Head(channel).relay_parent
                 c == Head(channel).command.candidate
             IN  /\ out' = << [to |-> "CollatorProtocol", kind |-> "Invalid",
                               relay_parent |-> rp, candidate |-> c] >>
                 /\ per_relay_parent'[rp].issued_statements
                       = per_relay_parent[rp].issued_statements
                 /\ per_relay_parent'[rp].table = per_relay_parent[rp].table
                 /\ nSigned' = nSigned
                 /\ tasks' = tasks
       /\ \A rp \in Known, c \in Candidates :
             (/\ nMsgs' = nMsgs + 1 /\ last'.event = "Statement" /\ last'.kind = "Seconded"
              /\ last'.relay_parent = rp /\ last'.candidate = c
              /\ Voters(per_relay_parent'[rp], c) # Voters(per_relay_parent[rp], c)
              /\ per_relay_parent[rp].assignment = {ParaOf(c)}
              /\ c \notin per_relay_parent[rp].issued_statements
              /\ c \notin per_relay_parent[rp].awaiting_validation)
             => \E t \in AttestTasks(tasks', rp, c) :
                   /\ CopiesIn(t, tasks') = CopiesIn(t, tasks) + 1
                   /\ t.pov = {last'.sender}]_vars

\* a Second task has reported failure: the collator was told, and the
\* candidate is neither ruled on nor being validated
C16_Witness ==
    /\ last.event = "Command" /\ last.kind = "Second" /\ ~last.ok
    /\ last.relay_parent \in Known
    /\ out = << [to |-> "CollatorProtocol", kind |-> "Invalid",
                 relay_parent |-> last.relay_parent, candidate |-> last.candidate] >>
    /\ last.candidate \notin per_relay_parent[last.relay_parent].issued_statements
    /\ last.candidate \notin per_relay_parent[last.relay_parent].awaiting_validation
    /\ per_relay_parent[last.relay_parent].assignment = {ParaOf(last.candidate)}

\* C18: a statement whose validator index is out of bounds of the relay
\* parent's validator set produces no Dispute Coordinator notification, but
\* is still imported into the statement table: the table is the one the
\* import leaves, and the misbehaviors the import finds are reported
C18_OutOfBoundsStillImported ==
    [][(/\ last'.event = "Statement" /\ nMsgs' = nMsgs + 1
        /\ last'.relay_parent \in Known
        /\ last'.sender >= Len(per_relay_parent[last'.relay_parent].table_context.validators))
       => LET rp == last'.relay_parent
              imp == table_import_statement(
                         per_relay_parent[rp].table_context, per_relay_parent[rp].table,
                         [kind |-> last'.kind, candidate |-> last'.candidate,
                          sender |-> last'.sender])
          IN  /\ \A i \in DOMAIN out' : out'[i].to # "DisputeCoordinator"
              /\ per_relay_parent'[rp].table.candidate_votes = imp.table.candidate_votes
              /\ per_relay_parent'[rp].table.authority_data = imp.table.authority_data
              /\ \A mb \in imp.table.detected_misbehavior :
                    \E i \in Reports(out') :
                       out'[i].validator = mb.validator /\ out'[i].report = mb.report]_vars

\* C19: when a runtime query needed to construct a relay parent's state
\* fails, that relay parent gets no per_relay_parent entry and every existing
\* entry is unchanged; the handler returns and further events are processed
C19_FailedQuerySkipsRelayParent ==
    [][(last'.event = "Leaves" /\ nUpdates' = nUpdates + 1 /\ last'.failing # {})
       => /\ \A rp \in last'.failing \ Known : rp \notin DOMAIN per_relay_parent'
          /\ \A rp \in Known : /\ rp \in DOMAIN per_relay_parent'
                               /\ per_relay_parent'[rp] = per_relay_parent[rp]]_vars
\* a leaf whose construction failed is active without an entry, another
\* relay parent has one, and a later message has been handled
C19_Witness ==
    /\ active \ Known # {}
    /\ Known # {}
    /\ last.event = "Statement" /\ last.relay_parent \in Known
    /\ out # <<>>

\* C20: when no key signs for the node at a relay parent, handling a
\* Second(Ok) or Attest(Ok) result signs nothing, imports nothing into the
\* table, sends no Share to Statement Distribution and no Seconded
\* notification to the Collator Protocol
C20_NoKeyNothingDistributed ==
    [][(CommandStep /\ last'.event = "Command" /\ last'.no_key)
       => LET rp == Head(channel).relay_parent
          IN  /\ nSigned' = nSigned
              /\ per_relay_parent'[rp].table = per_relay_parent[rp].table
              /\ \A i \in DOMAIN out' :
                    /\ ~IsShareMsg(out'[i])
                    /\ ~(out'[i].to = "CollatorProtocol" /\ out'[i].kind = "Seconded")]_vars
\* a Second(Ok) result has been handled without a key, after an Attest(Ok)
\* result that was handled without a key at the same relay parent
C20_Witness ==
    /\ last.event = "Command" /\ last.kind = "Second" /\ last.ok /\ last.no_key
    /\ last.relay_parent \in Known
    /\ \E c \in per_relay_parent[last.relay_parent].issued_statements :
          /\ c # last.candidate
          /\ per_relay_parent[last.relay_parent].table_context.validator
                \cap Voters(per_relay_parent[last.relay_parent], c) = {}

\* C21: the event loop ends when it receives Conclude, in any state and
\* whatever tasks are in flight: Conclude can be received in every state in
\* which the loop runs, it changes nothing, and no step follows it; a
\* BlockFinalized signal changes no coordinator state and sends no message
C21_ConcludeEndsLoop ==
    [][/\ last.event # "Conclude"
       /\ ENABLED Conclude
       /\ last'.event \in {"BlockFinalized", "Conclude"}
            => /\ out' = <<>>
               /\ UNCHANGED <<implicit_view, per_leaf, per_relay_parent, per_candidate,
                              tasks, channel, active, nSigned, nBacked>>]_vars
\* the loop has been left with a task running and a result not yet received
C21_Witness ==
    /\ last.event = "Conclude"
    /\ tasks # EmptyBag
    /\ channel # <<>>
    /\ Known # {}

\* the step handles a Second message for candidate c at relay parent rp
SecondStep(rp, c) ==
    /\ nMsgs' = nMsgs + 1 /\ last'.event = "Second"
    /\ last'.relay_parent = rp /\ last'.candidate = c
\* the Second tasks for candidate c at relay parent rp among a bag of tasks
SecondTasks(bag, rp, c) ==
    {t \in BagToSet(bag) : t.relay_parent = rp /\ t.candidate = c /\ t.make_command = "Second"}

\* C22: a Second message for a known relay parent whose candidate para is
\* the node's assignment there, the node having seconded or issued nothing
\* there, spawns a background validation task with the supplied PoV and the
\* Second command, and puts the candidate into awaiting_validation
C22_SecondSpawnsValidation ==
    [][\A rp \in Known, c \in Candidates :
          (/\ SecondStep(rp, c)
           /\ per_relay_parent[rp].assignment = {ParaOf(c)}
           /\ per_relay_parent[rp].issued_statements = {}
           /\ per_relay_parent[rp].awaiting_validation = {})
          => /\ \E t \in SecondTasks(tasks', rp, c) :
                   /\ CopiesIn(t, tasks') = CopiesIn(t, tasks) + 1
                   /\ t.pov = {}
             /\ c \in per_relay_parent'[rp].awaiting_validation]_vars

\* the candidates for which the node signed and shared Seconded at relay parent rp
SecondedLocally(rp) == {c \in Candidates : nSigned[<<rp, c, "Seconded">>] > 0}

C24_UnknownRelayParentIgnored ==
    [][(/\ nMsgs' = nMsgs + 1 /\ last'.event \in {"Second", "Statement"}
        /\ last'.relay_parent \notin Known)
       => /\ out' = <<>>
          /\ UNCHANGED <<implicit_view, per_leaf, per_relay_parent, per_candidate,
                         tasks, channel, active, nSigned, nBacked>>]_vars
\* a peer's Seconded statement for a candidate of para 1 has been handled at
\* an active leaf without an entry, another relay parent being known and
\* having para 1 as the node's assignment
C24_Witness ==
    /\ last.event = "Statement" /\ last.kind = "Seconded" /\ ParaOf(last.candidate) = 1
    /\ last.relay_parent \in active \ Known
    /\ \E rp \in Known : per_relay_parent[rp].assignment = {1}

\* C25: a Second message whose candidate para differs from the node's
\* assignment at that relay parent, or arriving where the node has no
\* assignment, is ignored: no task is spawned, awaiting_validation and
\* issued_statements are unchanged and nothing is sent
C25_NotOurAssignmentIgnored ==
    [][\A rp \in Known, c \in Candidates :
          (SecondStep(rp, c) /\ per_relay_parent[rp].assignment # {ParaOf(c)})
          => /\ tasks' = tasks
             /\ per_relay_parent'[rp].awaiting_validation
                   = per_relay_parent[rp].awaiting_validation
             /\ per_relay_parent'[rp].issued_statements
                   = per_relay_parent[rp].issued_statements
             /\ out' = <<>>]_vars
\* a Second message for a candidate of another para has been handled at a
\* relay parent where the node has an assignment and nothing is being validated
C25_Witness ==
    /\ last.event = "Second" /\ last.relay_parent \in Known
    /\ per_relay_parent[last.relay_parent].assignment # {}
    /\ per_relay_parent[last.relay_parent].assignment # {ParaOf(last.candidate)}
    /\ per_relay_parent[last.relay_parent].awaiting_validation = {}
    /\ \E rp \in Known : per_relay_parent[rp].assignment = {}

\* the step handles the result `kind` (ok or not) for candidate c at the known
\* relay parent rp
ResultStep(rp, c, kind, ok) ==
    /\ CommandStep
    /\ Head(channel).relay_parent = rp /\ Head(channel).command.candidate = c
    /\ Head(channel).command.kind = kind /\ Head(channel).command.ok = ok
\* the statement of the given kind the node signs for candidate c at rp
OwnStatement(rp, c, kind) ==
    [kind |-> kind, candidate |-> c,
     sender |-> The(per_relay_parent[rp].table_context.validator)]
\* the step shares exactly one statement, st, and records it as signed
SharesOnly(rp, st) ==
    /\ ShareMsgs(out') = {[to |-> "StatementDistribution", kind |-> "Share",
                           relay_parent |-> rp, statement |-> st]}
    /\ Cardinality({i \in DOMAIN out' : IsShareMsg(out'[i])}) = 1
    /\ nSigned' = [nSigned EXCEPT ![<<rp, st.candidate, st.kind>>] = Min(2, @ + 1)]
\* the step leaves in the table of rp what importing st into it leaves
Imports(rp, st) ==
    LET imp == table_import_statement(per_relay_parent[rp].table_context,
                                      per_relay_parent[rp].table, st)
    IN  /\ per_relay_parent'[rp].table.candidate_votes = imp.table.candidate_votes
        /\ per_relay_parent'[rp].table.authority_data = imp.table.authority_data

StatementStep(rp, st) ==
    /\ nMsgs' = nMsgs + 1 /\ last'.event = "Statement" /\ last'.relay_parent = rp
    /\ last'.kind = st.kind /\ last'.candidate = st.candidate /\ last'.sender = st.sender
    /\ st.sender < Len(per_relay_parent[rp].table_context.validators)
\* the table of rp accepts st: its import yields a summary
Accepted(rp, st) ==
    table_import_statement(per_relay_parent[rp].table_context,
                           per_relay_parent[rp].table, st).summary # {}
\* st comes from another validator than the node
FromPeer(rp, st) == {st.sender} # per_relay_parent[rp].table_context.validator
\* the step spawns one Attest task for c at rp fetching the PoV from `from`
SpawnsAttest(rp, c, from) ==
    \E t \in AttestTasks(tasks', rp, c) :
       /\ t.pov = {from}
       /\ tasks' = tasks (+) SetToBag({t})
\* the step records the fallback [from_validator = from, backing = <<>>] for c
RecordsFallback(rp, c, from) ==
    /\ c \in DOMAIN per_relay_parent'[rp].fallbacks
    /\ per_relay_parent'[rp].fallbacks[c].from_validator = from
    /\ per_relay_parent'[rp].fallbacks[c].backing = <<>>

\* C27, as stated: when a Seconded statement is accepted by the table, the
\* candidate's group is the node's assignment and the node has not issued its
\* own ruling on the candidate, the coordinator records a fallback with
\* from_validator = the sender and an empty backing queue and spawns an Attest
\* validation fetching the PoV from the sender; when the group differs from
\* the assignment no fallback is recorded and nothing is spawned
C27_SecondedSpawnsAttest ==
    [][\A rp \in Known, st \in Statements :
          (/\ StatementStep(rp, st) /\ st.kind = "Seconded" /\ Accepted(rp, st)
           /\ FromPeer(rp, st))
          => IF per_relay_parent[rp].assignment = {ParaOf(st.candidate)}
             THEN st.candidate \notin per_relay_parent[rp].issued_statements
                  => /\ RecordsFallback(rp, st.candidate, st.sender)
                     /\ SpawnsAttest(rp, st.candidate, st.sender)
             ELSE /\ per_relay_parent'[rp].fallbacks = per_relay_parent[rp].fallbacks
                  /\ tasks' = tasks]_vars

\* C27, amended: as above, the Attest validation being spawned only when the
\* candidate is not in awaiting_validation; when it is, the fallback is
\* recorded and nothing is spawned
C27_SecondedSpawnsAttestUnlessAwaiting ==
    [][\A rp \in Known, st \in Statements :
          (/\ StatementStep(rp, st) /\ st.kind = "Seconded" /\ Accepted(rp, st)
           /\ FromPeer(rp, st))
          => IF per_relay_parent[rp].assignment = {ParaOf(st.candidate)}
             THEN st.candidate \notin per_relay_parent[rp].issued_statements
                  => /\ RecordsFallback(rp, st.candidate, st.sender)
                     /\ IF st.candidate \in per_relay_parent[rp].awaiting_validation
                        THEN tasks' = tasks
                        ELSE SpawnsAttest(rp, st.candidate, st.sender)
             ELSE /\ per_relay_parent'[rp].fallbacks = per_relay_parent[rp].fallbacks
                  /\ tasks' = tasks]_vars
\* a second validator's Seconded statement for a candidate has been accepted
\* while the Attest task spawned for the first one's is running: the fallback
\* names the second sender, the only task fetches from the first
C27_Witness ==
    /\ last.event = "Statement" /\ last.kind = "Seconded" /\ last.relay_parent \in Known
    /\ LET rp_state == per_relay_parent[last.relay_parent]
           c == last.candidate
       IN  /\ rp_state.assignment = {ParaOf(c)}
           /\ c \in DOMAIN rp_state.fallbacks
           /\ rp_state.fallbacks[c].from_validator = last.sender
           /\ last.sender \in Voters(rp_state, c)
           /\ c \in rp_state.awaiting_validation
           /\ AttestTasks(tasks, last.relay_parent, c) # {}
           /\ \A t \in AttestTasks(tasks, last.relay_parent, c) :
                 t.pov # {last.sender} /\ t.pov # rp_state.table_context.validator
           /\ {last.sender} # rp_state.table_context.validator

\* the fallback of c at rp before and after the step
FallbackOf(rp, c) == per_relay_parent[rp].fallbacks[c]
FallbackAfter(rp, c) == per_relay_parent'[rp].fallbacks[c]

Without(q, i) == SubSeq(q, 1, i - 1) \o SubSeq(q, i + 1, Len(q))

\* C29: on an AttestNoPoV(c) result with a fallback for c: if the backing
\* queue is not empty, one validator is removed from the queue and becomes
\* from_validator, and a new Attest task for c is spawned; if the queue is
\* empty nothing is spawned, c is no longer in awaiting_validation, c is not
\* marked issued and the fallback stays
C29_NoPoVTriesNextBacker ==
    [][\A rp \in Known, c \in Candidates :
          (/\ CommandStep
           /\ Head(channel).relay_parent = rp /\ Head(channel).command.candidate = c
           /\ Head(channel).command.kind = "AttestNoPoV"
           /\ c \in DOMAIN per_relay_parent[rp].fallbacks)
          => LET backing == FallbackOf(rp, c).backing
             IN  IF backing # <<>>
                 THEN \E i \in DOMAIN backing :
                         /\ FallbackAfter(rp, c) =
                               [FallbackOf(rp, c) EXCEPT !.from_validator = backing[i],
                                                         !.backing = Without(backing, i)]
                         /\ SpawnsAttest(rp, c, backing[i])
                         /\ c \in per_relay_parent'[rp].awaiting_validation
                 ELSE /\ tasks' = tasks
                      /\ c \notin per_relay_parent'[rp].awaiting_validation
                      /\ c \notin per_relay_parent'[rp].issued_statements
                      /\ per_relay_parent'[rp].issued_statements
                            = per_relay_parent[rp].issued_statements
                      /\ FallbackAfter(rp, c) = FallbackOf(rp, c)]_vars
\* an AttestNoPoV result has been handled and the validator taken from the
\* backing queue, one that voted Valid, is the one the new task fetches from
C29_Witness ==
    /\ last.event = "Command" /\ last.kind = "AttestNoPoV" /\ last.relay_parent \in Known
    /\ LET rp_state == per_relay_parent[last.relay_parent]
           c == last.candidate
       IN  /\ c \in DOMAIN rp_state.fallbacks
           /\ rp_state.fallbacks[c].backing = <<>>
           /\ c \in rp_state.awaiting_validation
           /\ c \in DOMAIN rp_state.table.candidate_votes
           /\ rp_state.fallbacks[c].from_validator \in DOMAIN rp_state.table.candidate_votes[c]
           /\ rp_state.table.candidate_votes[c][rp_state.fallbacks[c].from_validator] = "Valid"
           /\ \E t \in AttestTasks(tasks, last.relay_parent, c) :
                 t.pov = {rp_state.fallbacks[c].from_validator}

\* what an Attest(Ok) result for c at rp leaves when the node signs: Valid(c)
\* signed, imported and shared, c issued and its fallback removed
AttestsValid(rp, c) ==
    /\ SharesOnly(rp, OwnStatement(rp, c, "Valid"))
    /\ Imports(rp, OwnStatement(rp, c, "Valid"))
    /\ per_relay_parent'[rp].issued_statements
          = per_relay_parent[rp].issued_statements \cup {c}
    /\ c \notin DOMAIN per_relay_parent'[rp].fallbacks

\* C30, as stated: on an Attest(Ok) result for candidate c not yet in
\* issued_statements, the coordinator signs Valid(c), imports it, shares it
\* with Statement Distribution, adds c to issued_statements and removes the
\* fallback for c
C30_AttestOkSignsValid ==
    [][\A rp \in Known, c \in Candidates :
          (/\ ResultStep(rp, c, "Attest", TRUE)
           /\ c \notin per_relay_parent[rp].issued_statements)
          => AttestsValid(rp, c)]_vars

\* C30, amended: as above when the node can sign; when no key signs, nothing
\* is signed, imported or shared, and c is added to issued_statements and its
\* fallback removed all the same
C30_AttestOkSignsValidWithKey ==
    [][\A rp \in Known, c \in Candidates :
          (/\ ResultStep(rp, c, "Attest", TRUE)
           /\ c \notin per_relay_parent[rp].issued_statements)
          => IF last'.no_key
             THEN /\ out' = <<>>
                  /\ nSigned' = nSigned
                  /\ per_relay_parent'[rp].table = per_relay_parent[rp].table
                  /\ per_relay_parent'[rp].issued_statements
                        = per_relay_parent[rp].issued_statements \cup {c}
                  /\ c \notin DOMAIN per_relay_parent'[rp].fallbacks
             ELSE AttestsValid(rp, c)]_vars
\* an Attest(Ok) result has made the node sign, import and share Valid for a
\* candidate, after one for another candidate was handled without a key
C30_Witness ==
    /\ last.event = "Command" /\ last.kind = "Attest" /\ last.ok /\ ~last.no_key
    /\ last.relay_parent \in Known
    /\ LET rp_state == per_relay_parent[last.relay_parent]
           c == last.candidate
       IN  /\ c \in rp_state.issued_statements
           /\ c \notin DOMAIN rp_state.fallbacks
           /\ nSigned[<<last.relay_parent, c, "Valid">>] = 1
           /\ \E i \in DOMAIN out : IsShareMsg(out[i]) /\ out[i].statement.candidate = c
           /\ c \in DOMAIN rp_state.table.candidate_votes
           /\ \A v \in rp_state.table_context.validator :
                 /\ v \in DOMAIN rp_state.table.candidate_votes[c]
                 /\ rp_state.table.candidate_votes[c][v] = "Valid"
           /\ \E d \in rp_state.issued_statements \ {c} :
                 /\ nSigned[<<last.relay_parent, d, "Valid">>] = 0
                 /\ d \notin DOMAIN rp_state.fallbacks

\* the tasks in a bag for candidate c at relay parent rp
TasksFor(bag, rp, c) == {t \in BagToSet(bag) : t.relay_parent = rp /\ t.candidate = c}
\* the step neither shares a statement about c at rp nor spawns a task for it
NothingAbout(rp, c) ==
    /\ \A i \in DOMAIN out' :
          IsShareMsg(out'[i]) => ~(out'[i].relay_parent = rp /\ out'[i].statement.candidate = c)
    /\ \A kind \in Roles : nSigned'[<<rp, c, kind>>] = nSigned[<<rp, c, kind>>]
    /\ \A t \in TasksFor(tasks', rp, c) : CopiesIn(t, tasks') <= CopiesIn(t, tasks)

\* C31: on an Attest(Err) result for candidate c the coordinator adds c to
\* issued_statements without signing, importing or distributing a statement
\* about c, and no later step at that relay parent, c being in
\* issued_statements for good, signs a statement about c or spawns validation
\* for c
C31_AttestErrMarksIssued ==
    [][\A rp \in Known, c \in Candidates :
          /\ (ResultStep(rp, c, "Attest", FALSE)
                /\ c \notin per_relay_parent[rp].issued_statements)
             => /\ per_relay_parent'[rp].issued_statements
                      = per_relay_parent[rp].issued_statements \cup {c}
                /\ per_relay_parent'[rp].table = per_relay_parent[rp].table
                /\ out' = <<>>
                /\ nSigned' = nSigned
                /\ tasks' = tasks
          /\ c \in per_relay_parent[rp].issued_statements
             => /\ rp \in DOMAIN per_relay_parent'
                /\ c \in per_relay_parent'[rp].issued_statements
                /\ NothingAbout(rp, c)]_vars
\* an Attest(Err) result has been handled: the candidate is issued, peers
\* have voted for it, the node has signed nothing about it and no task runs
C31_Witness ==
    /\ last.event = "Command" /\ last.kind = "Attest" /\ ~last.ok
    /\ last.relay_parent \in Known
    /\ last.candidate \in per_relay_parent[last.relay_parent].issued_statements
    /\ Voters(per_relay_parent[last.relay_parent], last.candidate) # {}
    /\ \A kind \in Roles : nSigned[<<last.relay_parent, last.candidate, kind>>] = 0
    /\ InFlight(last.relay_parent, last.candidate) = 0
    /\ out = <<>>

\* the step is the run of task t with the given outcome
TaskStep(t, outcome) ==
    /\ t \in BagToSet(tasks)
    /\ tasks' = tasks (-) SetToBag({t})
    /\ last'.event = "Task" /\ last'.kind = outcome
    /\ last'.relay_parent = t.relay_parent /\ last'.candidate = t.candidate
\* the step puts exactly one result, command, for the task t on the channel
Delivers(t, command) ==
    channel' = Append(channel, [relay_parent |-> t.relay_parent, command |-> command])
\* the step sends a message to the given subsystem
SendsTo(subsystem) == \E i \in DOMAIN out' : out'[i].to = subsystem

\* C32: a background task whose PoV fetch fails sends exactly one command,
\* AttestNoPoV(candidate hash), on the result channel and ends without
\* requesting candidate validation and without storing available data
C32_FetchFailureSendsAttestNoPoV ==
    [][\A t \in BagToSet(tasks) :
          TaskStep(t, "FetchPoVFailed")
          => /\ Delivers(t, [kind |-> "AttestNoPoV", ok |-> FALSE, candidate |-> t.candidate])
             /\ ~SendsTo("CandidateValidation")
             /\ ~SendsTo("AvailabilityStore")
             /\ SendsTo("AvailabilityDistribution")]_vars
\* a task's PoV fetch has failed and its AttestNoPoV is the result queued last
C32_Witness ==
    /\ last.event = "Task" /\ last.kind = "FetchPoVFailed"
    /\ channel # <<>>
    /\ channel[Len(channel)] =
          [relay_parent |-> last.relay_parent,
           command |-> [kind |-> "AttestNoPoV", ok |-> FALSE, candidate |-> last.candidate]]
    /\ Len(out) = 1 /\ out[1].to = "AvailabilityDistribution"
    /\ last.candidate \in per_relay_parent[last.relay_parent].awaiting_validation

\* C33: in the background pipeline a candidate judged Valid whose recomputed
\* erasure root differs from descriptor.erasure_root yields the result
\* Err(candidate) and no StoreAvailableData is sent; a matching root sends
\* StoreAvailableData before the Ok result is delivered; every Invalid
\* validation outcome yields Err(candidate) without storing
C33_ErasureRootDecidesResult ==
    [][\A t \in BagToSet(tasks) :
          /\ TaskStep(t, "InvalidErasureRoot")
             => /\ Delivers(t, [kind |-> t.make_command, ok |-> FALSE, candidate |-> t.candidate])
                /\ SendsTo("CandidateValidation")
                /\ ~SendsTo("AvailabilityStore")
          /\ TaskStep(t, "Valid")
             => /\ Delivers(t, [kind |-> t.make_command, ok |-> TRUE, candidate |-> t.candidate])
                /\ out'[Len(out')] = [to |-> "AvailabilityStore", kind |-> "StoreAvailableData",
                                      candidate_hash |-> t.candidate,
                                      n_validators |-> t.n_validators]
          /\ \A outcome \in {"InvalidCommitmentsHashMismatch", "InvalidOther"} :
                TaskStep(t, outcome)
                => /\ Delivers(t, [kind |-> t.make_command, ok |-> FALSE,
                                   candidate |-> t.candidate])
                   /\ SendsTo("CandidateValidation")
                   /\ ~SendsTo("AvailabilityStore")]_vars
\* a task has found the erasure root of a valid candidate to differ: its
\* Err result is queued and nothing was stored
C33_Witness ==
    /\ last.event = "Task" /\ last.kind = "InvalidErasureRoot"
    /\ channel # <<>>
    /\ channel[Len(channel)].relay_parent = last.relay_parent
    /\ channel[Len(channel)].command.candidate = last.candidate
    /\ ~channel[Len(channel)].command.ok
    /\ channel[Len(channel)].command.kind = "Attest"
    /\ \A i \in DOMAIN out : out[i].to # "AvailabilityStore"
    /\ \E i \in DOMAIN out : out[i].to = "CandidateValidation"

\* the indices (0-based) of the Scheduled cores of rt whose group has the
\* validator v
MatchingCores(rt, v) ==
    {idx \in 0..(Len(rt.cores) - 1) :
        /\ rt.cores[idx + 1].kind = "Scheduled"
        /\ group_for_core(rt, idx, Len(rt.cores)) < Len(rt.groups)
        /\ Position(rt.groups[group_for_core(rt, idx, Len(rt.cores)) + 1], v) # {}}

\* C34: when the local validator belongs to the groups of several Scheduled
\* availability cores at a relay parent, the recorded assignment is the para
\* of the matching core with the lowest core index; with no matching
\* Scheduled core the assignment is absent
C34_AssignmentIsFirstMatch ==
    \A rp \in Known :
       LET rt == Runtime(rp)
           matching == IF OurValidator(rt) = {} THEN {}
                       ELSE MatchingCores(rt, The(OurValidator(rt)))
       IN  per_relay_parent[rp].assignment =
              IF matching = {} THEN {}
              ELSE {rt.cores[(CHOOSE i \in matching : \A j \in matching : i <= j) + 1].para_id}

\* the positions of the ImportStatements notifications among messages
DisputeMsgs(msgs) == {i \in DOMAIN msgs : msgs[i].to = "DisputeCoordinator"}
\* the notification for the statement st at relay parent rp
ImportStatementsMsg(rp, st) ==
    [to |-> "DisputeCoordinator", kind |-> "ImportStatements",
     candidate_hash |-> st.candidate, session |-> per_relay_parent[rp].session_index,
     validator_index |-> st.sender]

\* C35: for every imported statement whose validator index is in bounds at
\* most one ImportStatements notification is sent to the Dispute Coordinator,
\* and it is sent before the statement is recorded in the table, so before
\* anything the import sends: a Seconded statement always produces one, a
\* Valid statement produces one only if its candidate is in the table
\* already, so a Valid statement with no prior Seconded produces none
C35_DisputeNotificationFirst ==
    [][/\ Cardinality(DisputeMsgs(out')) <= 1
       /\ DisputeMsgs(out') \subseteq {1}
       /\ \A rp \in Known, st \in Statements :
             StatementStep(rp, st)
             => IF \/ st.kind = "Seconded"
                   \/ get_candidate(per_relay_parent[rp].table, st.candidate) # {}
                THEN /\ DisputeMsgs(out') = {1}
                     /\ out'[1] = ImportStatementsMsg(rp, st)
                ELSE DisputeMsgs(out') = {}]_vars
\* a Valid statement for a candidate that nobody has seconded has been
\* handled, and a Seconded statement has produced a notification before
C35_Witness ==
    /\ last.event = "Statement" /\ last.kind = "Valid" /\ last.relay_parent \in Known
    /\ last.sender < Len(per_relay_parent[last.relay_parent].table_context.validators)
    /\ get_candidate(per_relay_parent[last.relay_parent].table, last.candidate) = {}
    /\ DisputeMsgs(out) = {}
    /\ per_relay_parent[last.relay_parent].table.candidate_votes # EmptyMap

C37_CandidateEntryOnFirstAcceptance ==
    [][/\ \A rp \in Known, c \in Candidates, v \in ValidatorIndices :
            LET st == [kind |-> "Seconded", candidate |-> c, sender |-> v]
            IN  (/\ StatementStep(rp, st) /\ Accepted(rp, st)
                 /\ c \notin DOMAIN Votes(rp))
                => /\ c \in DOMAIN per_candidate'
                   /\ per_candidate'[c].relay_parent = rp
       /\ \A c \in DOMAIN per_candidate :
            per_candidate[c].relay_parent \in DOMAIN per_relay_parent'
            => (c \in DOMAIN per_candidate' /\ per_candidate'[c] = per_candidate[c])]_vars

\* C38: under fair scheduling of the background tasks and of the event loop,
\* a candidate that is in awaiting_validation of a relay parent is eventually
\* removed from it, unless the relay parent's entry goes first: every spawned
\* task ends by delivering a command that the coordinator handles, whatever
\* candidate validation and the availability store answer
C38_AwaitingEventuallyRemoved ==
    \A rp \in Hashes, c \in Candidates :
        (rp \in Known /\ c \in per_relay_parent[rp].awaiting_validation)
        ~> (rp \notin Known \/ c \notin per_relay_parent[rp].awaiting_validation)

\* C39: after every handled event no relay parent keeps a fallback for a
\* candidate that is in its issued_statements
C39_NoFallbackForIssued ==
    \A rp \in Known :
        DOMAIN per_relay_parent[rp].fallbacks \cap per_relay_parent[rp].issued_statements = {}

\* the validators in the sequence q
Queued(q) == {q[i] : i \in DOMAIN q}

\* C40: a validator in the backing queue of a candidate's fallback stays in
\* it over every step but the handling of an AttestNoPoV or Attest result for
\* that candidate; and a further Seconded statement of a peer for a candidate
\* whose validation is in flight, fetching from another peer, leaves the
\* fallback's queue and its from_validator as they are
C40_QueueSurvivesSeconded ==
    [][\A rp \in Known \cap DOMAIN per_relay_parent', c \in Candidates :
          c \in DOMAIN per_relay_parent[rp].fallbacks
          => /\ ~(\E ok \in BOOLEAN : ResultStep(rp, c, "Attest", ok))
                /\ ~ResultStep(rp, c, "AttestNoPoV", FALSE)
                => /\ c \in DOMAIN per_relay_parent'[rp].fallbacks
                   /\ Queued(FallbackOf(rp, c).backing) \subseteq Queued(FallbackAfter(rp, c).backing)
             /\ \A v \in ValidatorIndices :
                  LET st == [kind |-> "Seconded", candidate |-> c, sender |-> v]
                  IN  (/\ StatementStep(rp, st) /\ FromPeer(rp, st)
                       /\ {FallbackOf(rp, c).from_validator}
                             # per_relay_parent[rp].table_context.validator
                       /\ c \in per_relay_parent[rp].awaiting_validation)
                      => /\ FallbackAfter(rp, c).backing = FallbackOf(rp, c).backing
                         /\ FallbackAfter(rp, c).from_validator
                               = FallbackOf(rp, c).from_validator]_vars

====
